---------------------------- MODULE Spec2Model ----------------------------
(***************************************************************************)
(* A model of the wplace-clone repository: the pixel grid geometry, the    *)
(* two drafts of the socket server (server/websocketServer.ts and          *)
(* server/websocket.ts), the REST placement route (api/pixels/route.ts),   *)
(* the PixelService (lib/pixelService.ts) with its Redis chunk cache, and  *)
(* the client's placement handler (LeafletMapDynamic.tsx).                 *)
(*                                                                         *)
(* Geographic coordinates are integers counting half pixels: one grid cell *)
(* is PIXEL_SIZE = 2 units wide, so a cell's centre is representable.  The *)
(* world, the chunk size and the zoom/time samples are scaled down; every  *)
(* formula of the source is kept as written.                               *)
(***************************************************************************)
EXTENDS Integers, Sequences, FiniteSets, TLC

(***************************************************************************)
(* Bounds of the model                                                     *)
(***************************************************************************)
NSockets == 2            \* socket connections (socket ids are never reused)
NUsers == 2              \* user accounts, ids 1..NUsers
MaxInbox == 2            \* events kept per socket; placements stop beyond it
MaxRelays == 1           \* pixel:place messages handled in the subscription runs
MaxAuth == 3             \* authenticate messages the room server handles
MaxTicks == 1            \* the socket server's clock advances at most MaxTicks times
NRequests == 2           \* POST /api/pixels requests in flight over a run
MaxPixels == 2           \* PixelService.placePixel stops once the table has more rows
NReaders == 2            \* getPixelsInBounds calls over a run
MaxOutside == 1          \* how far beyond the world's edges the sampled inputs reach
MaxMapEvents == 3        \* moveend and zoomend events of the map over a run
MaxMapTicks == 5         \* the browser's clock advances at most MaxMapTicks times
MaxCacheRounds == 2        \* TTL periods the cache clock runs over
MaxHookAttempts == 11      \* reconnections the hook may start between two opens

UserIds == 1..NUsers
NoUser == [id |-> -1]

Min(a, b) == IF a < b THEN a ELSE b
Max(a, b) == IF a > b THEN a ELSE b

MapSet(m, k, v) == [x \in DOMAIN m \cup {k} |-> IF x = k THEN v ELSE m[x]]
MapDelete(m, k) == [x \in DOMAIN m \ {k} |-> m[x]]
EmptyMap == [x \in {} |-> {}]

(***************************************************************************)
(* lib/gridConfig.ts and lib/pixelGridSystem.ts (scaled world: 4 x 3 cells,*)
(* chunks of 2 x 2 cells)                                                  *)
(***************************************************************************)
PIXEL_SIZE == 2
CHUNK_SIZE == 2
MIN_LAT == -3
MAX_LAT == 3
MIN_LNG == -4
MAX_LNG == 4
MIN_VISIBLE == 14

geoToGrid(lat, lng) ==
  LET clampedLat == Max(MIN_LAT, Min(MAX_LAT, lat))
      clampedLng == Max(MIN_LNG, Min(MAX_LNG, lng))
  IN  [gridX |-> (clampedLng - MIN_LNG) \div PIXEL_SIZE,
       gridY |-> (MAX_LAT - clampedLat) \div PIXEL_SIZE]

\* A conversion that returns the centre of the next cell on both axes.
gridToGeoNextCentre(gridX, gridY) ==
  [lng |-> MIN_LNG + (gridX + 1) * PIXEL_SIZE + PIXEL_SIZE \div 2,
   lat |-> MAX_LAT - (gridY + 1) * PIXEL_SIZE - PIXEL_SIZE \div 2]

gridToGeo(gridX, gridY) ==
  [lng |-> MIN_LNG + gridX * PIXEL_SIZE + PIXEL_SIZE \div 2,
   lat |-> MAX_LAT - gridY * PIXEL_SIZE - PIXEL_SIZE \div 2]

gridToChunk(gridX, gridY) ==
  [chunkX |-> gridX \div CHUNK_SIZE, chunkY |-> gridY \div CHUNK_SIZE]

getChunkId(chunkX, chunkY) == <<"chunk", chunkX, chunkY>>

\* The list of chunk coordinates of a viewport; the two loops never repeat a pair.
getVisibleChunks(bounds) ==
  LET topLeft == geoToGrid(bounds.north, bounds.west)
      bottomRight == geoToGrid(bounds.south, bounds.east)
      topLeftChunk == gridToChunk(topLeft.gridX, topLeft.gridY)
      bottomRightChunk == gridToChunk(bottomRight.gridX, bottomRight.gridY)
  IN  {[chunkX |-> x, chunkY |-> y] :
         x \in topLeftChunk.chunkX .. bottomRightChunk.chunkX,
         y \in topLeftChunk.chunkY .. bottomRightChunk.chunkY}

(***************************************************************************)
(* Inputs: viewports, zoom levels, pixels a client may send                *)
(***************************************************************************)
\* Three viewports over the first chunk row: chunk columns {0,1} and {1,2},
\* and one whose west edge lies east of its east edge (no chunk at all).
ViewWest == [north |-> MAX_LAT, south |-> 1, west |-> MIN_LNG, east |-> 0]
ViewEast == [north |-> MAX_LAT, south |-> 1, west |-> 0, east |-> MAX_LNG]
ViewInverted == [north |-> MAX_LAT, south |-> 1, west |-> MAX_LNG, east |-> MIN_LNG]
Viewports == {ViewWest, ViewEast, ViewInverted}
Zooms == {9, 10, 19}
Colors == {"#FF0000", "#0000FF"}
Cells == {<<0, 0>>, <<1, 1>>, <<2, 0>>}
Pixels == {[gridX |-> c[1], gridY |-> c[2], color |-> col, userId |-> u] :
             c \in Cells, col \in Colors, u \in UserIds}
\* One pixel per sampled cell, for the runs that only look at who is notified.
ProbePixels == {[gridX |-> c[1], gridY |-> c[2], color |-> "#FF0000", userId |-> 1] :
                  c \in {<<1, 1>>, <<2, 0>>}}

VARIABLES
  now,                  \* the clock, in milliseconds
  sockState,            \* socket id -> "new" | "open" | "closed"
  inbox,                \* socket id -> sequence of pixel events received
  connectedUsers,       \* websocketServer.ts: socket id -> ConnectedUser
  chunkSubscriptions,   \* websocketServer.ts: chunk id -> ChunkSubscription
  userSockets,          \* websocketServer.ts: user id -> socket id
  totalConnectedUsers,  \* websocketServer.ts
  totalPixelsPlaced,    \* websocketServer.ts
  roomUsers,            \* websocket.ts: connectedUsers, socket id -> ConnectedUser
  chunkUsers,           \* websocket.ts: chunk key -> set of socket ids
  rooms,                \* websocket.ts: socket.io rooms, chunk key -> set of socket ids
  authSent,             \* authenticate messages handled so far
  lastOp,               \* history: the call or message just handled, if recorded
  pixelsTable,          \* MySQL table pixels: a set of rows
  usersTable,           \* MySQL table users: user id -> row
  req,                  \* POST /api/pixels requests: request id -> its progress
  applied,              \* history: requests whose writes reached the tables
  lastCommit,           \* history: cell -> colour and owner of the last committed write
  redis,                \* Redis: key -> value and expiry
  readers,              \* getPixelsInBounds calls: reader id -> its progress
  mapClient,            \* the map component of one browser: its timers and refs
  pixelCache,           \* database.ts: PixelCache.cache, key -> pixels and timestamp
  wsHook                \* hooks/useWebSocket.ts: refs, timers and state of one hook

Sockets == DOMAIN sockState

subVars == <<now, sockState, inbox, connectedUsers, chunkSubscriptions,
             userSockets, totalConnectedUsers, totalPixelsPlaced, roomUsers,
             chunkUsers, rooms, authSent, lastOp>>

storeVars == <<pixelsTable, usersTable, req, applied, lastCommit>>

notSub == <<storeVars, redis, readers, mapClient, pixelCache, wsHook>>
notStore == <<sockState, inbox, connectedUsers, chunkSubscriptions, userSockets,
              totalConnectedUsers, totalPixelsPlaced, roomUsers, chunkUsers, rooms,
              authSent, redis, readers, mapClient, pixelCache, wsHook>>
notSvc == <<sockState, inbox, connectedUsers, chunkSubscriptions, userSockets,
            totalConnectedUsers, totalPixelsPlaced, roomUsers, chunkUsers, rooms,
            authSent, req, applied, lastCommit, mapClient, pixelCache, wsHook>>

vars == <<subVars, storeVars, redis, readers, mapClient, pixelCache, wsHook>>

(***************************************************************************)
(* server/websocketServer.ts                                               *)
(***************************************************************************)
CLEANUP_THRESHOLD == 300000

NoOp == [op |-> "none"]

\* A first loop that forgets to leave the old chunks.
UnsubscribeNone(subs, socketId, oldChunks) == subs

\* subscribeToChunks, first loop: leave every chunk of user.currentChunks.
UnsubscribeOld(subs, socketId, oldChunks) ==
  LET keep == {c \in DOMAIN subs :
                 ~(c \in oldChunks /\ subs[c].subscribers \ {socketId} = {})}
  IN  [c \in keep |->
         IF c \in oldChunks
           THEN [subs[c] EXCEPT !.subscribers = @ \ {socketId}]
           ELSE subs[c]]

\* subscribeToChunks, second loop: join every chunk of the new list.
SubscribeNew(subs, socketId, newIds, t) ==
  [c \in DOMAIN subs \cup newIds |->
     IF c \in newIds
       THEN [subscribers |-> (IF c \in DOMAIN subs THEN subs[c].subscribers ELSE {})
                               \cup {socketId},
             lastActivity |-> t]
       ELSE subs[c]]

subscribeToChunks(subs, socketId, oldChunks, newIds, t) ==
  SubscribeNew(UnsubscribeOld(subs, socketId, oldChunks), socketId, newIds, t)

\* broadcastToChunk: the sockets the event is emitted to.
broadcastToChunk(subs, chunkId, excludeSocketId) ==
  IF chunkId \notin DOMAIN subs
    THEN {}
    ELSE {t \in subs[chunkId].subscribers : t # excludeSocketId}

\* A loop over the subscribers that an emit to a closed socket would abort:
\* the sockets after the first closed one (in id order) get nothing.
DeliverUntilClosed(box, targets, event) ==
  [t \in Sockets |->
     IF t \in targets /\ \A u \in targets : u <= t => sockState[u] = "open"
       THEN Append(box[t], event) ELSE box[t]]

\* io.to(socketId).emit reaches a socket only while it is connected.
Deliver(box, targets, event) ==
  [t \in Sockets |->
     IF t \in targets /\ sockState[t] = "open" THEN Append(box[t], event) ELSE box[t]]

ChunkIdsOf(bounds) == {getChunkId(c.chunkX, c.chunkY) : c \in getVisibleChunks(bounds)}

\* io.on('connection'): u is the user the handshake middleware found (0: none).
Connect(s, u) ==
  /\ sockState[s] = "new"
  /\ sockState' = [sockState EXCEPT ![s] = "open"]
  /\ connectedUsers' = [connectedUsers EXCEPT ![s] =
        [id |-> u, currentChunks |-> {}, isAuthenticated |-> (u # 0)]]
  /\ userSockets' = IF u # 0 THEN MapSet(userSockets, u, s) ELSE userSockets
  /\ totalConnectedUsers' = totalConnectedUsers + 1
  /\ lastOp' = NoOp
  /\ UNCHANGED <<now, inbox, chunkSubscriptions, totalPixelsPlaced,
                 roomUsers, chunkUsers, rooms, authSent, notSub>>

\* socket.on('subscribe:chunks'): the zoom of the message is not read.
SubscribeChunks(s, bounds, zoom) ==
  /\ sockState[s] = "open"
  /\ connectedUsers[s] # NoUser
  /\ LET newIds == ChunkIdsOf(bounds)
     IN  /\ chunkSubscriptions' = subscribeToChunks(chunkSubscriptions, s,
                                     connectedUsers[s].currentChunks, newIds, now)
         /\ connectedUsers' = [connectedUsers EXCEPT ![s].currentChunks = newIds]
         /\ lastOp' = [op |-> "subscribe", socket |-> s, bounds |-> bounds,
                       zoom |-> zoom, before |-> connectedUsers[s].currentChunks]
  /\ UNCHANGED <<now, sockState, inbox, userSockets, totalConnectedUsers,
                 totalPixelsPlaced, roomUsers, chunkUsers, rooms, authSent, notSub>>

\* A handler that relays the pixel of any open socket, signed in or not.
RelayPixelUnchecked(s, pixel) ==
  /\ sockState[s] = "open"
  /\ \A t \in Sockets : Len(inbox[t]) < MaxInbox
  /\ LET chunkId == getChunkId(pixel.gridX \div CHUNK_SIZE, pixel.gridY \div CHUNK_SIZE)
         targets == broadcastToChunk(chunkSubscriptions, chunkId, s)
         sent == Deliver(inbox, targets, [type |-> "pixel:placed", pixel |-> pixel])
     IN  /\ totalPixelsPlaced' = totalPixelsPlaced + 1
         /\ inbox' = [sent EXCEPT ![s] =
                         Append(@, [type |-> "pixel:confirmed", pixel |-> pixel])]
  /\ UNCHANGED <<now, sockState, connectedUsers, chunkSubscriptions,
                 userSockets, totalConnectedUsers, roomUsers, chunkUsers, rooms, authSent>>

\* socket.on('pixel:place'): the pixel is the one the client sent.
RelayPixel(s, pixel) ==
  /\ sockState[s] = "open"
  /\ \A t \in Sockets : Len(inbox[t]) < MaxInbox
  /\ IF ~connectedUsers[s].isAuthenticated
       THEN UNCHANGED <<inbox, totalPixelsPlaced>>
       ELSE LET chunkId == getChunkId(pixel.gridX \div CHUNK_SIZE,
                                      pixel.gridY \div CHUNK_SIZE)
                targets == broadcastToChunk(chunkSubscriptions, chunkId, s)
                sent == Deliver(inbox, targets, [type |-> "pixel:placed", pixel |-> pixel])
            IN  /\ totalPixelsPlaced' = totalPixelsPlaced + 1
                /\ inbox' = [sent EXCEPT ![s] =
                                Append(@, [type |-> "pixel:confirmed", pixel |-> pixel])]
  /\ UNCHANGED <<now, sockState, connectedUsers, chunkSubscriptions,
                 userSockets, totalConnectedUsers, roomUsers, chunkUsers, rooms, authSent>>

OnPixelPlace(s, pixel) == RelayPixel(s, pixel) /\ lastOp' = NoOp

\* a pixel:place message that no POST stands behind
PixelPlace(s, pixel) == OnPixelPlace(s, pixel) /\ UNCHANGED notSub

\* socket.on('disconnect'): the handler only registers a second 'disconnect'
\* handler (and an 'error' handler) on the socket that has just closed; the
\* clean-up written inside that second handler is never run.
Disconnect(s) ==
  /\ sockState[s] = "open"
  /\ sockState' = [sockState EXCEPT ![s] = "closed"]
  /\ lastOp' = NoOp
  /\ UNCHANGED <<now, inbox, connectedUsers, chunkSubscriptions, userSockets,
                 totalConnectedUsers, totalPixelsPlaced, roomUsers, chunkUsers, rooms, authSent, notSub>>

\* setInterval(cleanupInactiveSubscriptions, 60000)
cleanupInactiveSubscriptions(subs, t) ==
  [c \in {d \in DOMAIN subs : ~(t - subs[d].lastActivity > CLEANUP_THRESHOLD)} |-> subs[c]]

Cleanup ==
  /\ chunkSubscriptions' = cleanupInactiveSubscriptions(chunkSubscriptions, now)
  /\ lastOp' = NoOp
  /\ UNCHANGED <<now, sockState, inbox, connectedUsers, userSockets,
                 totalConnectedUsers, totalPixelsPlaced, roomUsers, chunkUsers, rooms, authSent, notSub>>

\* Time passes: by exactly the inactivity threshold, or by a millisecond more.
Tick(d) ==
  /\ now + d <= MaxTicks * (CLEANUP_THRESHOLD + 1)
  /\ now' = now + d
  /\ lastOp' = NoOp
  /\ UNCHANGED <<sockState, inbox, connectedUsers, chunkSubscriptions,
                 userSockets, totalConnectedUsers, totalPixelsPlaced, roomUsers,
                 chunkUsers, rooms, authSent, notSub>>

NextWS ==
  \/ \E s \in Sockets, u \in {0, 1} : Connect(s, u)
  \/ \E s \in Sockets, b \in Viewports, z \in Zooms : SubscribeChunks(s, b, z)
  \/ \E s \in Sockets, p \in ProbePixels :
       totalPixelsPlaced < MaxRelays /\ PixelPlace(s, p)
  \/ \E s \in Sockets : Disconnect(s)
  \/ Cleanup
  \/ \E d \in {CLEANUP_THRESHOLD, CLEANUP_THRESHOLD + 1} : Tick(d)

(***************************************************************************)
(* server/websocket.ts: the draft that keeps one socket.io room per chunk  *)
(* key.  Its helpers are local copies that do not clamp to the world.      *)
(***************************************************************************)
ROOM_CHUNK_SIZE == 2
ROOM_MIN_ZOOM == 10
BROADCAST_ZOOM_FROM == 10
BROADCAST_ZOOM_TO == 18

getChunkKey(chunkX, chunkY, zoom) == <<"chunk", zoom, chunkX, chunkY>>

roomVisibleChunks(bounds, zoom) ==
  IF zoom < ROOM_MIN_ZOOM
    THEN {}
    ELSE LET topLeftX == (bounds.west - MIN_LNG) \div PIXEL_SIZE
             topLeftY == (MAX_LAT - bounds.north) \div PIXEL_SIZE
             bottomRightX == (bounds.east - MIN_LNG) \div PIXEL_SIZE
             bottomRightY == (MAX_LAT - bounds.south) \div PIXEL_SIZE
         IN  {[chunkX |-> x, chunkY |-> y] :
                x \in (topLeftX \div ROOM_CHUNK_SIZE) .. (bottomRightX \div ROOM_CHUNK_SIZE),
                y \in (topLeftY \div ROOM_CHUNK_SIZE) .. (bottomRightY \div ROOM_CHUNK_SIZE)}

ChunkKeysOf(bounds, zoom) ==
  {getChunkKey(c.chunkX, c.chunkY, zoom) : c \in roomVisibleChunks(bounds, zoom)}

mockVerifyToken(token) == IF token = "test-token" THEN [id |-> 1] ELSE NoUser

mockPlacePixel(lat, lng, color, userId) ==
  [gridX |-> (lng - MIN_LNG) \div PIXEL_SIZE,
   gridY |-> (MAX_LAT - lat) \div PIXEL_SIZE,
   color |-> color, userId |-> userId]

\* socket.leave / chunkUsers clean-up for a set of keys
LeaveKeys(m, socketId, keys) ==
  LET keep == {k \in DOMAIN m : ~(k \in keys /\ m[k] \ {socketId} = {})}
  IN  [k \in keep |-> IF k \in keys THEN m[k] \ {socketId} ELSE m[k]]

\* socket.join / chunkUsers registration for a set of keys
JoinKeys(m, socketId, keys) ==
  [k \in DOMAIN m \cup keys |->
     IF k \in keys
       THEN (IF k \in DOMAIN m THEN m[k] ELSE {}) \cup {socketId}
       ELSE m[k]]

\* io.on('connection') registers the handlers and keeps no state.
RoomConnect(s) ==
  /\ sockState[s] = "new"
  /\ sockState' = [sockState EXCEPT ![s] = "open"]
  /\ lastOp' = NoOp
  /\ UNCHANGED <<now, inbox, connectedUsers, chunkSubscriptions, userSockets,
                 totalConnectedUsers, totalPixelsPlaced, roomUsers, chunkUsers, rooms, authSent, notSub>>

\* socket.on('authenticate'): the entry is replaced, with an empty chunk set,
\* each time the message is handled.
Authenticate(s, token) ==
  /\ sockState[s] = "open"
  /\ LET user == mockVerifyToken(token)
     IN  roomUsers' = IF user = NoUser
                        THEN roomUsers
                        ELSE [roomUsers EXCEPT ![s] =
                                [id |-> user.id, currentChunks |-> {}]]
  /\ lastOp' = NoOp
  /\ authSent' = authSent + 1
  /\ UNCHANGED <<now, sockState, inbox, connectedUsers, chunkSubscriptions,
                 userSockets, totalConnectedUsers, totalPixelsPlaced, chunkUsers, rooms, notSub>>

\* socket.on('view_changed')
ViewChanged(s, bounds, zoom) ==
  /\ sockState[s] = "open"
  /\ IF roomUsers[s] = NoUser
       THEN /\ lastOp' = NoOp
            /\ UNCHANGED <<roomUsers, chunkUsers, rooms, authSent>>
       ELSE LET newChunkKeys == ChunkKeysOf(bounds, zoom)
                current == roomUsers[s].currentChunks
                left == current \ newChunkKeys
                joined == newChunkKeys \ current
            IN  /\ rooms' = JoinKeys(LeaveKeys(rooms, s, left), s, joined)
                /\ chunkUsers' = JoinKeys(LeaveKeys(chunkUsers, s, left), s, joined)
                /\ roomUsers' = [roomUsers EXCEPT ![s].currentChunks = newChunkKeys]
                /\ lastOp' = [op |-> "subscribe", socket |-> s, bounds |-> bounds,
                              zoom |-> zoom, before |-> current]
  /\ UNCHANGED <<now, sockState, inbox, connectedUsers, chunkSubscriptions,
                 userSockets, totalConnectedUsers, totalPixelsPlaced, authSent, notSub>>

\* socket.to(chunkKey).emit for zoom = z .. BROADCAST_ZOOM_TO, one emit per zoom:
\* each emit reaches the members of that room other than the sender.
RECURSIVE EmitToRooms(_, _, _, _, _, _)
EmitToRooms(box, z, chunkX, chunkY, sender, event) ==
  IF z > BROADCAST_ZOOM_TO
    THEN box
    ELSE LET chunkKey == getChunkKey(chunkX, chunkY, z)
             members == IF chunkKey \in DOMAIN rooms THEN rooms[chunkKey] \ {sender} ELSE {}
         IN  EmitToRooms(Deliver(box, members, event), z + 1, chunkX, chunkY, sender, event)

\* socket.on('place_pixel')
RoomPlacePixel(s, lat, lng, color) ==
  /\ sockState[s] = "open"
  /\ \A t \in Sockets : Len(inbox[t]) < MaxInbox
  /\ IF roomUsers[s] = NoUser
       THEN /\ lastOp' = NoOp
            /\ UNCHANGED inbox
       ELSE LET pixel == mockPlacePixel(lat, lng, color, roomUsers[s].id)
                confirmed == [inbox EXCEPT ![s] =
                                Append(@, [type |-> "pixel_placed", pixel |-> pixel])]
            IN  /\ inbox' = EmitToRooms(confirmed, BROADCAST_ZOOM_FROM,
                                        pixel.gridX \div ROOM_CHUNK_SIZE,
                                        pixel.gridY \div ROOM_CHUNK_SIZE, s,
                                        [type |-> "pixel_updated", pixel |-> pixel])
                /\ lastOp' = NoOp
  /\ UNCHANGED <<now, sockState, connectedUsers, chunkSubscriptions,
                 userSockets, totalConnectedUsers, totalPixelsPlaced, roomUsers,
                 chunkUsers, rooms, authSent, notSub>>

\* socket.on('disconnect'); socket.io itself takes a closed socket out of its rooms.
RoomDisconnect(s) ==
  /\ sockState[s] = "open"
  /\ sockState' = [sockState EXCEPT ![s] = "closed"]
  /\ rooms' = LeaveKeys(rooms, s, DOMAIN rooms)
  /\ IF roomUsers[s] = NoUser
       THEN UNCHANGED <<roomUsers, chunkUsers>>
       ELSE /\ chunkUsers' = LeaveKeys(chunkUsers, s, roomUsers[s].currentChunks)
            /\ roomUsers' = [roomUsers EXCEPT ![s] = NoUser]
  /\ lastOp' = NoOp
  /\ UNCHANGED <<now, inbox, connectedUsers, chunkSubscriptions, userSockets,
                 totalConnectedUsers, totalPixelsPlaced, authSent, notSub>>

Tokens == {"test-token", "stale-token"}
ProbePoints == {gridToGeo(p.gridX, p.gridY) : p \in ProbePixels}

NextRoom ==
  \/ \E s \in Sockets : RoomConnect(s)
  \/ \E s \in Sockets, token \in Tokens :
       authSent < MaxAuth /\ Authenticate(s, token)
  \/ \E s \in Sockets, b \in Viewports, z \in Zooms : ViewChanged(s, b, z)
  \/ \E s \in Sockets, g \in ProbePoints :
       /\ \A t \in Sockets : Len(inbox[t]) < MaxRelays
       /\ RoomPlacePixel(s, g.lat, g.lng, "#FF0000")
  \/ \E s \in Sockets : RoomDisconnect(s)

(***************************************************************************)
(* app/api/pixels/route.ts: POST /api/pixels over the MySQL tables         *)
(***************************************************************************)
COOLDOWN_SECONDS == 30

FREE == {"#FF0000", "#0000FF"}
\* "#0000FF" stands for the colours the configuration lists in both arrays
PREMIUM == {"#000000", "#0000FF"}

isValidColor(hex) == hex \in FREE \cup PREMIUM

isFreeColor(hex) == hex \in FREE

isValidGridPosition(gridX, gridY) ==
  LET maxGridX == (MAX_LNG - MIN_LNG) \div PIXEL_SIZE
      maxGridY == (MAX_LAT - MIN_LAT) \div PIXEL_SIZE
  IN gridX >= 0 /\ gridX < maxGridX /\ gridY >= 0 /\ gridY < maxGridY

\* the error message, or "" for a valid placement
validatePixelPlacement(gridX, gridY, color, userId) ==
  IF ~isValidGridPosition(gridX, gridY) THEN "Position de grille hors limites"
  ELSE IF ~isValidColor(color) THEN "Couleur invalide"
  ELSE IF userId <= 0 THEN "Utilisateur invalide"
  ELSE ""

\* A route that looks at the colour before the position.
postChecksColourFirst(gridX, gridY, color, userId, isPremium) ==
  IF ~isValidColor(color) THEN [status |-> 400, error |-> "Couleur invalide"]
  ELSE IF ~isValidGridPosition(gridX, gridY)
    THEN [status |-> 400, error |-> "Position de grille hors limites"]
  ELSE IF ~isFreeColor(color) /\ ~isPremium THEN [status |-> 403]
  ELSE [status |-> 0]

\* POST: validatePixelPlacement, isValidColor, isFreeColor; status 0 when all pass
postChecks(gridX, gridY, color, userId, isPremium) ==
  LET validation == validatePixelPlacement(gridX, gridY, color, userId)
  IN  IF validation # "" THEN [status |-> 400, error |-> validation]
      ELSE IF ~isValidColor(color) THEN [status |-> 400, error |-> "Couleur invalide"]
      ELSE IF ~isFreeColor(color) /\ ~isPremium THEN [status |-> 403]
      ELSE [status |-> 0]

\* a TIMESTAMP NULL column: NULL, or an instant in milliseconds
NullTime == [null |-> TRUE, ms |-> 0]
At(t) == [null |-> FALSE, ms |-> t]

\* MySQL NOW() in a TIMESTAMP column: whole seconds
SqlNow(t) == At((t \div 1000) * 1000)

\* Math.ceil(a / b) for b > 0
CeilDiv(a, b) == -((-a) \div b)

\* A check that still refuses at the very end of the cooldown.
checkCooldownStrict(lastPixelTime, t) ==
  IF lastPixelTime.null
    THEN [canPlace |-> TRUE, remainingSeconds |-> 0]
    ELSE LET remainingMs == COOLDOWN_SECONDS * 1000 - (t - lastPixelTime.ms)
         IN [canPlace |-> remainingMs < 0,
             remainingSeconds |-> Max(0, CeilDiv(remainingMs, 1000))]

checkCooldown(lastPixelTime, t) ==
  IF lastPixelTime.null
    THEN [canPlace |-> TRUE, remainingSeconds |-> 0]
    ELSE LET timeSinceLastPixel == t - lastPixelTime.ms
             cooldownMs == COOLDOWN_SECONDS * 1000
             remainingMs == cooldownMs - timeSinceLastPixel
         IN [canPlace |-> remainingMs <= 0,
             remainingSeconds |-> Max(0, CeilDiv(remainingMs, 1000))]

Requests == DOMAIN req

NoResult == [status |-> 0]

IdleRequest ==
  [pc |-> "idle", user |-> 0, lat |-> 0, lng |-> 0, gridX |-> 0, gridY |-> 0, color |-> "",
   lastPixelTime |-> NullTime, checkedAt |-> 0, saw |-> {}, exists |-> FALSE,
   write |-> "none", userWrite |-> NullTime, open |-> FALSE, result |-> NoResult]

RowsAt(table, gridX, gridY) == {row \in table : row.gridX = gridX /\ row.gridY = gridY}

\* a released connection whose transaction was neither committed nor rolled back
Dangling(d) == req[d].pc = "done" /\ req[d].open

\* InnoDB row locks held by the open transactions of other requests
PixelLocked(r) ==
  \E q \in Requests \ {r} :
    /\ req[q].open /\ req[q].write # "none"
    /\ req[q].gridX = req[r].gridX /\ req[q].gridY = req[r].gridY

UserLocked(r) ==
  \E q \in Requests \ {r} :
    req[q].open /\ ~req[q].userWrite.null /\ req[q].user = req[r].user

\* the tables after the writes of q's transaction are committed
PixelsAfter(table, q) ==
  IF req[q].write = "update"
    THEN {IF row \in RowsAt(table, req[q].gridX, req[q].gridY)
            THEN [row EXCEPT !.color = req[q].color, !.userId = req[q].user, !.by = q]
            ELSE row : row \in table}
  ELSE IF req[q].write = "insert"
    THEN table \cup {[id |-> q, gridX |-> req[q].gridX, gridY |-> req[q].gridY,
                      lat |-> req[q].lat, lng |-> req[q].lng,
                      color |-> req[q].color, userId |-> req[q].user, by |-> q]}
  ELSE table

UsersAfter(table, q) ==
  IF req[q].userWrite.null THEN table
  ELSE [table EXCEPT ![req[q].user] =
          [@ EXCEPT !.pixels_placed = @ + 1, !.last_pixel_time = req[q].userWrite]]

HasWrites(q) == req[q].write # "none" \/ ~req[q].userWrite.null

CommitAfter(last, q) ==
  IF req[q].write = "none" THEN last
  ELSE MapSet(last, <<req[q].gridX, req[q].gridY>>,
              [color |-> req[q].color, userId |-> req[q].user])

\* UNIQUE KEY unique_position (grid_x, grid_y): is an INSERT at the cell refused
NoUniqueKey(table, gridX, gridY) == FALSE

UniqueViolation(table, gridX, gridY) == RowsAt(table, gridX, gridY) # {}

\* A route that looks at the cooldown before the body.
rejectionCooldownFirst(checks, cooldown) ==
  IF ~cooldown.canPlace
    THEN [status |-> 429, remainingSeconds |-> cooldown.remainingSeconds]
  ELSE checks

\* POST: the first early return taken after authentication, status 0 if none
rejection(checks, cooldown) ==
  IF checks.status # 0 THEN checks
  ELSE IF ~cooldown.canPlace
    THEN [status |-> 429, remainingSeconds |-> cooldown.remainingSeconds]
  ELSE [status |-> 0]

\* authenticate, request.json(), validation, colour and cooldown checks
PostStart(r, u, lat, lng, gridX, gridY, color) ==
  /\ req[r].pc = "idle"
  /\ LET lastPixelTime == IF u = 0 THEN NullTime ELSE usersTable[u].last_pixel_time
         checks == postChecks(gridX, gridY, color, u, u # 0 /\ usersTable[u].is_premium)
         cooldown == checkCooldown(lastPixelTime, now)
         base == [IdleRequest EXCEPT !.user = u, !.lat = lat, !.lng = lng,
                                     !.gridX = gridX, !.gridY = gridY,
                                     !.color = color, !.lastPixelTime = lastPixelTime,
                                     !.checkedAt = now, !.saw = applied]
         reject(res) == [base EXCEPT !.pc = "done", !.result = res]
     IN req' = [req EXCEPT ![r] =
          IF u = 0 THEN reject([status |-> 401])
          ELSE IF rejection(checks, cooldown).status # 0
            THEN reject(rejection(checks, cooldown))
          ELSE [base EXCEPT !.pc = "checked"]]
  /\ UNCHANGED <<now, lastOp, pixelsTable, usersTable, applied, lastCommit, notStore>>

\* pool.getConnection(), beginTransaction() and the SELECT of the existing row.
\* conn = 0 is a connection with no transaction open; otherwise it is the
\* connection a failed request released with its transaction still open, whose
\* writes START TRANSACTION commits.
PostBegin(r, conn) ==
  /\ req[r].pc = "checked"
  /\ conn = 0 \/ (conn \in Requests /\ Dangling(conn))
  /\ LET pixels == IF conn = 0 THEN pixelsTable ELSE PixelsAfter(pixelsTable, conn)
     IN /\ pixelsTable' = pixels
        /\ usersTable' = IF conn = 0 THEN usersTable ELSE UsersAfter(usersTable, conn)
        /\ applied' = IF conn # 0 /\ HasWrites(conn) THEN applied \cup {conn} ELSE applied
        /\ lastCommit' = IF conn = 0 THEN lastCommit ELSE CommitAfter(lastCommit, conn)
        /\ req' = [q \in Requests |->
             IF q = r
               THEN [req[r] EXCEPT !.pc = "selected", !.open = TRUE,
                       !.exists = RowsAt(pixels, req[r].gridX, req[r].gridY) # {}]
             ELSE IF q = conn THEN [req[q] EXCEPT !.open = FALSE]
             ELSE req[q]]
  /\ UNCHANGED <<now, lastOp, notStore>>

\* UPDATE pixels when the SELECT found a row, INSERT INTO pixels otherwise
PostWritePixel(r) ==
  /\ req[r].pc = "selected"
  /\ ~PixelLocked(r)
  /\ req' = [req EXCEPT ![r] =
       IF req[r].exists THEN [@ EXCEPT !.pc = "wrotePixel", !.write = "update"]
       ELSE IF UniqueViolation(pixelsTable, req[r].gridX, req[r].gridY)
         THEN [@ EXCEPT !.pc = "done", !.result = [status |-> 500, cause |-> "ER_DUP_ENTRY"]]
       ELSE [@ EXCEPT !.pc = "wrotePixel", !.write = "insert"]]
  /\ UNCHANGED <<now, lastOp, pixelsTable, usersTable, applied, lastCommit, notStore>>

\* UPDATE users SET pixels_placed = pixels_placed + 1, last_pixel_time = NOW()
PostUpdateUser(r) ==
  /\ req[r].pc = "wrotePixel"
  /\ ~UserLocked(r)
  /\ req' = [req EXCEPT ![r] = [@ EXCEPT !.pc = "wroteUser", !.userWrite = SqlNow(now)]]
  /\ UNCHANGED <<now, lastOp, pixelsTable, usersTable, applied, lastCommit, notStore>>

PostCommit(r) ==
  /\ req[r].pc = "wroteUser"
  /\ pixelsTable' = PixelsAfter(pixelsTable, r)
  /\ usersTable' = UsersAfter(usersTable, r)
  /\ applied' = applied \cup {r}
  /\ lastCommit' = CommitAfter(lastCommit, r)
  /\ req' = [req EXCEPT ![r] = [@ EXCEPT !.pc = "committed", !.open = FALSE]]
  /\ UNCHANGED <<now, lastOp, notStore>>

\* the SELECT ... JOIN users after the commit, and the 200 response
PostRespond(r) ==
  /\ req[r].pc = "committed"
  /\ LET newPixel == CHOOSE row \in RowsAt(pixelsTable, req[r].gridX, req[r].gridY) : TRUE
     IN req' = [req EXCEPT ![r] = [@ EXCEPT !.pc = "done", !.result =
          [status |-> 200,
           pixel |-> [id |-> newPixel.id, gridX |-> newPixel.gridX, gridY |-> newPixel.gridY,
                      color |-> newPixel.color, owner |-> newPixel.userId],
           user |-> req[r].user,
           pixelsPlaced |-> usersTable[newPixel.userId].pixels_placed]]]
  /\ UNCHANGED <<now, lastOp, pixelsTable, usersTable, applied, lastCommit, notStore>>

\* a store call throws: catch answers 500, finally releases the connection
\* without a rollback. alive: the connection survives, with its transaction
\* still open; otherwise the server has dropped the transaction.
PostFail(r, alive) ==
  /\ req[r].pc \in {"checked", "selected", "wrotePixel", "wroteUser", "committed"}
  /\ req' = [req EXCEPT ![r] =
       [@ EXCEPT !.pc = "done", !.open = @ /\ alive,
                 !.result = [status |-> 500,
                             cause |-> IF req[r].pc = "committed" THEN "read" ELSE "store"]]]
  /\ UNCHANGED <<now, lastOp, pixelsTable, usersTable, applied, lastCommit, notStore>>

\* the pool or the server closes a connection left with an open transaction
DiscardDangling(d) ==
  /\ Dangling(d)
  /\ req' = [req EXCEPT ![d] = [@ EXCEPT !.open = FALSE]]
  /\ UNCHANGED <<now, lastOp, pixelsTable, usersTable, applied, lastCommit, notStore>>

ClockSamples == {999, (COOLDOWN_SECONDS - 1) * 1000 + 999, COOLDOWN_SECONDS * 1000}

RouteTick(t) ==
  /\ t > now
  /\ now' = t
  /\ UNCHANGED <<lastOp, storeVars, notStore>>

\* The body a client sends for a cell: the snapped point and its cell.
Body(gridX, gridY, color) ==
  [lat |-> gridToGeo(gridX, gridY).lat, lng |-> gridToGeo(gridX, gridY).lng,
   gridX |-> gridX, gridY |-> gridY, color |-> color]

\* Five bodies as the map builds them, and one whose point lies in cell
\* (0, 0) while its grid coordinates name cell (2, 0).
Bodies ==
  {Body(0, 0, "#FF0000"),
   Body(0, 0, "#0000FF"),
   [Body(0, 0, "#FF0000") EXCEPT !.gridX = 2],
   Body((MAX_LNG - MIN_LNG) \div PIXEL_SIZE, 0, "#FF0000"),
   Body(0, 0, "#ABCDEF"),
   Body(0, 0, "#000000")}

NextRoute ==
  \/ \E r \in Requests, u \in {0} \cup UserIds, b \in Bodies :
       PostStart(r, u, b.lat, b.lng, b.gridX, b.gridY, b.color)
  \/ \E r \in Requests, conn \in {0} \cup Requests : PostBegin(r, conn)
  \/ \E r \in Requests : PostWritePixel(r)
  \/ \E r \in Requests : PostUpdateUser(r)
  \/ \E r \in Requests : PostCommit(r)
  \/ \E r \in Requests : PostRespond(r)
  \/ \E r \in Requests, alive \in BOOLEAN : PostFail(r, alive)
  \/ \E d \in Requests : DiscardDangling(d)
  \/ \E t \in ClockSamples : RouteTick(t)


\* PUT /api/pixels: one UPDATE of the caller's own pixel, outside any
\* transaction; it waits while another request holds the lock of the row
PutPixel(u, pixelId, color) ==
  LET matched == {row \in pixelsTable : row.id = pixelId /\ row.userId = u}
      status == IF u = 0 THEN 401
                ELSE IF ~isValidColor(color) THEN 400
                ELSE IF ~isFreeColor(color) /\ ~usersTable[u].is_premium THEN 403
                ELSE IF matched = {} THEN 404
                ELSE 200
  IN  /\ lastOp = NoOp
      /\ status = 200 =>
            \A row \in matched : \A q \in Requests :
              ~(req[q].open /\ req[q].write # "none"
                /\ req[q].gridX = row.gridX /\ req[q].gridY = row.gridY)
      /\ pixelsTable' = IF status = 200
                          THEN {IF row \in matched THEN [row EXCEPT !.color = color] ELSE row :
                                  row \in pixelsTable}
                          ELSE pixelsTable
      /\ lastCommit' = IF status = 200
                         THEN [c \in DOMAIN lastCommit |->
                                 IF \E row \in matched : c = <<row.gridX, row.gridY>>
                                   THEN [color |-> color, userId |-> u]
                                   ELSE lastCommit[c]]
                         ELSE lastCommit
      /\ lastOp' = [op |-> "put", user |-> u, pixelId |-> pixelId, color |-> color,
                    status |-> status, at |-> now,
                    lastPixelTime |-> IF u = 0 THEN NullTime
                                      ELSE usersTable[u].last_pixel_time]
      /\ UNCHANGED <<now, usersTable, req, applied, notStore>>

\* the answer of the PUT has been sent; the steps of the requests in flight
\* go on after it
PutReturn ==
  /\ lastOp.op = "put"
  /\ lastOp' = NoOp
  /\ UNCHANGED <<now, storeVars, notStore>>

PutColors == {"#FF0000", "#0000FF", "#ABCDEF"}

NextPut ==
  \/ \E r \in Requests, u \in UserIds :
       /\ lastOp = NoOp
       /\ PostStart(r, u, Body(0, 0, "#FF0000").lat, Body(0, 0, "#FF0000").lng,
                    0, 0, "#FF0000")
  \/ \E r \in Requests : lastOp = NoOp /\ PostBegin(r, 0)
  \/ \E r \in Requests : lastOp = NoOp /\ PostWritePixel(r)
  \/ \E r \in Requests : lastOp = NoOp /\ PostUpdateUser(r)
  \/ \E r \in Requests : lastOp = NoOp /\ PostCommit(r)
  \/ \E r \in Requests : lastOp = NoOp /\ PostRespond(r)
  \/ \E t \in ClockSamples : lastOp = NoOp /\ RouteTick(t)
  \/ \E u \in {0} \cup UserIds, pixelId \in Requests, color \in PutColors :
       PutPixel(u, pixelId, color)
  \/ PutReturn

(***************************************************************************)
(* components/map/LeafletMapDynamic.tsx: the client places through the     *)
(* REST route and then announces the pixel on its socket                   *)
(***************************************************************************)
\* handlePixelPlace up to the fetch: nothing is sent unless the socket is
\* connected and a user is signed in
HandlePixelPlace(s, r, gridX, gridY, color) ==
  /\ sockState[s] = "open"
  /\ connectedUsers[s].isAuthenticated
  /\ LET snapped == gridToGeo(gridX, gridY)
     IN  PostStart(r, connectedUsers[s].id, snapped.lat, snapped.lng, gridX, gridY, color)

\* handlePixelPlace after a 200 answer: socket.emit('pixel:place', ...) with
\* result.data.pixel
EmitPixelPlace(s, r) ==
  /\ req[r].pc = "done" /\ req[r].result.status = 200
  /\ connectedUsers[s] # NoUser /\ connectedUsers[s].id = req[r].user
  /\ OnPixelPlace(s, req[r].result.pixel)
  /\ req' = [req EXCEPT ![r] = [@ EXCEPT !.pc = "announced"]]
  /\ UNCHANGED <<pixelsTable, usersTable, applied, lastCommit, redis, readers, mapClient,
                 pixelCache, wsHook>>

\* the user each browser is signed in as: sockets beyond the user accounts
\* are anonymous viewers
UserOf(s) == IF s \in UserIds THEN s ELSE 0

\* a pixel made up by a client
ForgedPixel == [id |-> 0, gridX |-> 0, gridY |-> 0, color |-> "#000000", owner |-> 1]

NextE2E ==
  \/ \E s \in Sockets :
       (\A t \in Sockets : t < s => sockState[t] # "new") /\ Connect(s, UserOf(s))
  \/ \E s \in Sockets : SubscribeChunks(s, ViewWest, MIN_VISIBLE)
  \/ \E s \in Sockets \cap Requests, color \in FREE : HandlePixelPlace(s, s, 0, 0, color)
  \/ \E r \in Requests : PostBegin(r, 0)
  \/ \E r \in Requests : PostWritePixel(r)
  \/ \E r \in Requests : PostUpdateUser(r)
  \/ \E r \in Requests : PostCommit(r)
  \/ \E r \in Requests : PostRespond(r)
  \/ \E s \in Sockets, r \in Requests : EmitPixelPlace(s, r)
  \/ \E s \in Sockets : totalPixelsPlaced < MaxRelays /\ PixelPlace(s, ForgedPixel)

(***************************************************************************)
(* server/websocketServer.ts with three sockets: a placer, a subscriber    *)
(* that has gone away and one that is still there                          *)
(***************************************************************************)
\* socket.on('pixel:place'), remembering the inboxes the handler found or the
\* 'error' it answered a socket that is not signed in
FanPixelPlace(s, pixel) ==
  /\ RelayPixel(s, pixel)
  /\ lastOp' = IF connectedUsers[s].isAuthenticated
                 THEN [op |-> "place", socket |-> s, pixel |-> pixel, before |-> inbox]
                 ELSE [op |-> "error", socket |-> s,
                       message |-> "Authentification requise pour placer des pixels"]
  /\ UNCHANGED notSub

NextFan ==
  \/ \E s \in Sockets :
       (\A t \in Sockets : t < s => sockState[t] # "new") /\ Connect(s, UserOf(s))
  \/ \E s \in Sockets, b \in {ViewWest, ViewEast} : SubscribeChunks(s, b, MIN_VISIBLE)
  \/ \E s \in Sockets : Disconnect(s)
  \/ \E s \in Sockets, p \in ProbePixels :
       totalPixelsPlaced < MaxRelays /\ FanPixelPlace(s, p)

(***************************************************************************)
(* lib/pixelService.ts over lib/gridSystem.ts, PostgreSQL and Redis        *)
(***************************************************************************)
GS_PIXEL_SIZE == 2
GS_MIN_ZOOM_VISIBLE == 12
GS_MIN_LAT == -3
GS_MAX_LAT == 3
GS_MIN_LNG == -4
GS_MAX_LNG == 4
GS_CHUNK_SIZE == 2

gsGeoToGrid(lat, lng) ==
  LET normalizedLat == Max(GS_MIN_LAT, Min(GS_MAX_LAT, lat))
      normalizedLng == Max(GS_MIN_LNG, Min(GS_MAX_LNG, lng))
  IN [x |-> (normalizedLng - GS_MIN_LNG) \div GS_PIXEL_SIZE,
      y |-> (GS_MAX_LAT - normalizedLat) \div GS_PIXEL_SIZE]

getChunkCoords(gridX, gridY) ==
  [chunkX |-> gridX \div GS_CHUNK_SIZE, chunkY |-> gridY \div GS_CHUNK_SIZE]

gsVisibleChunks(mapBounds, zoom) ==
  IF zoom < GS_MIN_ZOOM_VISIBLE THEN {}
  ELSE LET topLeft == gsGeoToGrid(mapBounds.north, mapBounds.west)
           bottomRight == gsGeoToGrid(mapBounds.south, mapBounds.east)
           topLeftChunk == getChunkCoords(topLeft.x, topLeft.y)
           bottomRightChunk == getChunkCoords(bottomRight.x, bottomRight.y)
       IN {[chunkX |-> x, chunkY |-> y] :
             x \in topLeftChunk.chunkX..bottomRightChunk.chunkX,
             y \in topLeftChunk.chunkY..bottomRightChunk.chunkY}

\* getChunkKey(chunkX, chunkY, zoomLevel): one key per chunk and zoom level
chunkCacheKey(chunkX, chunkY, zoomLevel) == <<"chunk", chunkX, chunkY, zoomLevel>>

\* Redis SETEX, DEL and the liveness of a key at instant t
Setex(store, key, seconds, value, t) ==
  MapSet(store, key, [value |-> value, expiresAt |-> t + seconds * 1000])

Del(store, keys) == [k \in DOMAIN store \ keys |-> store[k]]

Live(store, key, t) == key \in DOMAIN store /\ store[key].expiresAt > t

INVALIDATE_ZOOM_FROM == 10
INVALIDATE_ZOOM_TO == 18

invalidateChunkCache(store, gridX, gridY) ==
  LET chunkX == gridX \div GS_CHUNK_SIZE
      chunkY == gridY \div GS_CHUNK_SIZE
  IN Del(store, {chunkCacheKey(chunkX, chunkY, zoom) :
                   zoom \in INVALIDATE_ZOOM_FROM..INVALIDATE_ZOOM_TO})

cachePixel(store, pixel, t) ==
  Setex(Setex(store, <<"pixel", pixel.gridX, pixel.gridY>>, 3600, pixel, t),
        <<"cooldown", pixel.userId>>, 30, t, t)

getCachedPixelsInBounds(store, bounds, zoom, t) ==
  UNION {store[chunkCacheKey(c.chunkX, c.chunkY, zoom)].value :
           c \in {d \in gsVisibleChunks(bounds, zoom) :
                    Live(store, chunkCacheKey(d.chunkX, d.chunkY, zoom), t)}}

cachePixelsInBounds(store, pixels, bounds, zoom, t) ==
  LET chunkPixels(c) == {pixel \in pixels :
                           /\ pixel.gridX \div GS_CHUNK_SIZE = c.chunkX
                           /\ pixel.gridY \div GS_CHUNK_SIZE = c.chunkY}
      filled == {c \in gsVisibleChunks(bounds, zoom) : chunkPixels(c) # {}}
      keyOf(c) == chunkCacheKey(c.chunkX, c.chunkY, zoom)
  IN [k \in DOMAIN store \cup {keyOf(c) : c \in filled} |->
        IF \E c \in filled : k = keyOf(c)
          THEN [value |-> chunkPixels(CHOOSE c \in filled : k = keyOf(c)),
                expiresAt |-> t + 300 * 1000]
          ELSE store[k]]

\* PixelService.placePixel, with checkUserCooldown, the upsert transaction,
\* cachePixel and invalidateChunkCache
SvcPlacePixel(lat, lng, color, userId) ==
  LET g == gsGeoToGrid(lat, lng)
      cooldownKey == <<"cooldown", userId>>
      cached == Live(redis, cooldownKey, now)
      lastTime == usersTable[userId].last_pixel_time
      canPlace == IF cached THEN now - redis[cooldownKey].value >= 30000
                  ELSE IF ~lastTime.null THEN now - lastTime.ms >= 30000
                  ELSE TRUE
      checked == IF ~cached /\ ~lastTime.null
                   THEN Setex(redis, cooldownKey, 30, lastTime.ms, now)
                   ELSE redis
      existing == RowsAt(pixelsTable, g.x, g.y)
      pixel == [id |-> IF existing = {} THEN Cardinality(pixelsTable) + 1
                       ELSE (CHOOSE row \in existing : TRUE).id,
                lat |-> lat, lng |-> lng, gridX |-> g.x, gridY |-> g.y,
                color |-> color, userId |-> userId]
  IN IF ~canPlace
       THEN /\ redis' = checked
            /\ lastOp' = NoOp
            /\ UNCHANGED <<pixelsTable, usersTable>>
       ELSE /\ pixelsTable' = (pixelsTable \ existing) \cup {pixel}
            /\ usersTable' = [usersTable EXCEPT ![userId] =
                 [@ EXCEPT !.pixels_placed = @ + 1, !.last_pixel_time = At(now)]]
            /\ redis' = invalidateChunkCache(cachePixel(checked, pixel, now), g.x, g.y)
            /\ lastOp' = [op |-> "placePixel", pixel |-> pixel]

\* PixelService.getPixelsInBounds: the cached chunks if any holds a pixel,
\* the SELECT by latitude and longitude and a cache fill otherwise
SvcGetPixelsInBounds(bounds, zoom) ==
  LET cachedPixels == getCachedPixelsInBounds(redis, bounds, zoom, now)
      rows == {row \in pixelsTable :
                 /\ row.lat >= bounds.south /\ row.lat <= bounds.north
                 /\ row.lng >= bounds.west /\ row.lng <= bounds.east}
  IN IF cachedPixels # {}
       THEN /\ redis' = redis
            /\ lastOp' = [op |-> "getPixelsInBounds", bounds |-> bounds, zoom |-> zoom,
                          pixels |-> cachedPixels]
       ELSE /\ redis' = cachePixelsInBounds(redis, rows, bounds, zoom, now)
            /\ lastOp' = [op |-> "getPixelsInBounds", bounds |-> bounds, zoom |-> zoom,
                          pixels |-> rows]

\* time passes; Redis drops the keys whose time to live has run out
SvcTick(t) ==
  /\ t > now
  /\ now' = t
  /\ redis' = [k \in {j \in DOMAIN redis : redis[j].expiresAt > t} |-> redis[k]]
  /\ lastOp' = NoOp
  /\ UNCHANGED <<pixelsTable, usersTable, readers, notSvc>>

SvcPoints == {[lat |-> 2, lng |-> -3], [lat |-> 2, lng |-> -1]}
SvcZooms == {GS_MIN_ZOOM_VISIBLE - 1, INVALIDATE_ZOOM_TO, INVALIDATE_ZOOM_TO + 1}
SvcClock == {30000, 300000}

NextSvc ==
  \/ \E g \in SvcPoints, color \in FREE, u \in UserIds :
       /\ Cardinality(pixelsTable) < MaxPixels
       /\ SvcPlacePixel(g.lat, g.lng, color, u)
       /\ UNCHANGED <<now, readers, notSvc>>
  \/ \E b \in Viewports, z \in SvcZooms :
       SvcGetPixelsInBounds(b, z) /\ UNCHANGED <<now, pixelsTable, usersTable, readers, notSvc>>
  \/ \E t \in SvcClock : SvcTick(t)

(***************************************************************************)
(* PixelService.getPixelsInBounds step by step: the cache lookup, the      *)
(* SELECT and the cache fill are separate awaits                           *)
(***************************************************************************)
Readers == DOMAIN readers

IdleReader ==
  [pc |-> "idle", bounds |-> ViewInverted, zoom |-> 0, pixels |-> {},
   hit |-> FALSE, fresh |-> {}, inFlight |-> {}]

RowsInBounds(table, bounds) ==
  {row \in table :
     /\ row.lat >= bounds.south /\ row.lat <= bounds.north
     /\ row.lng >= bounds.west /\ row.lng <= bounds.east}

\* getCachedPixelsInBounds: cached pixels end the call; fresh and inFlight
\* record the table and the other calls under way at this instant
ReadLookup(r, bounds, zoom) ==
  /\ readers[r].pc = "idle"
  /\ LET cachedPixels == getCachedPixelsInBounds(redis, bounds, zoom, now)
         started == [IdleReader EXCEPT !.bounds = bounds, !.zoom = zoom,
                       !.fresh = RowsInBounds(pixelsTable, bounds),
                       !.inFlight = {q \in Readers : readers[q].pc \in {"missed", "fetched"}}]
     IN readers' = [readers EXCEPT ![r] =
          IF cachedPixels # {}
            THEN [started EXCEPT !.pc = "done", !.hit = TRUE, !.pixels = cachedPixels]
            ELSE [started EXCEPT !.pc = "missed"]]
  /\ UNCHANGED <<now, lastOp, pixelsTable, usersTable, redis, notSvc>>

\* pool.query(SELECT * FROM pixels WHERE lat BETWEEN ... AND lng BETWEEN ...)
ReadQuery(r) ==
  /\ readers[r].pc = "missed"
  /\ readers' = [readers EXCEPT ![r] =
       [@ EXCEPT !.pc = "fetched", !.pixels = RowsInBounds(pixelsTable, readers[r].bounds)]]
  /\ UNCHANGED <<now, lastOp, pixelsTable, usersTable, redis, notSvc>>

\* cachePixelsInBounds and the return
ReadFill(r) ==
  /\ readers[r].pc = "fetched"
  /\ redis' = cachePixelsInBounds(redis, readers[r].pixels, readers[r].bounds,
                                  readers[r].zoom, now)
  /\ readers' = [readers EXCEPT ![r] = [@ EXCEPT !.pc = "done"]]
  /\ UNCHANGED <<now, lastOp, pixelsTable, usersTable, notSvc>>

ReadZooms == {GS_MIN_ZOOM_VISIBLE, INVALIDATE_ZOOM_TO}

NextRead ==
  \/ \E g \in SvcPoints, color \in FREE, u \in UserIds :
       /\ Cardinality(pixelsTable) < MaxPixels
       /\ SvcPlacePixel(g.lat, g.lng, color, u)
       /\ UNCHANGED <<now, readers, notSvc>>
  \/ \E r \in Readers, z \in ReadZooms : ReadLookup(r, ViewWest, z)
  \/ \E r \in Readers : ReadQuery(r)
  \/ \E r \in Readers : ReadFill(r)

(***************************************************************************)
(* components/map: the Leaflet map reports its viewport, the page          *)
(* subscribes to the visible chunks after a delay                          *)
(***************************************************************************)
MOVE_DEBOUNCE == 150
SUBSCRIBE_DELAY == 300
\* the 0.001 degree below which a new viewport is not subscribed again: less
\* than a chunk, so viewports a chunk apart differ and equal ones do not
SUBSCRIBE_TOLERANCE == 1

Abs(x) == IF x < 0 THEN 0 - x ELSE x

NoTimeout == -1
NoBounds == [north |-> 0, south |-> 0, east |-> 0, west |-> 0, none |-> TRUE]

\* setTimeout(() => subscribeToVisibleChunks(newBounds, newZoom), 300); the
\* function handleMapChange returns to clear it is dropped by its caller.
\* burstEmits counts the subscriptions sent for the current burst of calls,
\* a burst being calls less than SUBSCRIBE_DELAY apart.
handleMapChange(c, newBounds, newZoom, t) ==
  [c EXCEPT !.timers = @ \cup {[at |-> t + SUBSCRIBE_DELAY, bounds |-> newBounds,
                                zoom |-> newZoom]},
            !.burstEmits = IF c.lastChangeAt # NoTimeout /\ t - c.lastChangeAt < SUBSCRIBE_DELAY
                             THEN @ ELSE 0,
            !.lastChangeAt = t]

\* the component after its effect has run: handleMoveEnd() is called once
MountedClient ==
  handleMapChange([bounds |-> ViewWest, zoom |-> MIN_VISIBLE, moveTimeout |-> NoTimeout,
                   timers |-> {}, subscriptionBounds |-> NoBounds, events |-> 0,
                   lastChangeAt |-> NoTimeout, burstEmits |-> 0],
                  ViewWest, MIN_VISIBLE, 0)

\* a timer of the browser is due
TimerDue ==
  \/ mapClient.moveTimeout = now
  \/ \E timer \in mapClient.timers : timer.at = now

clientFrame == <<sockState, inbox, connectedUsers, chunkSubscriptions, userSockets,
                 totalConnectedUsers, totalPixelsPlaced, roomUsers, chunkUsers, rooms,
                 authSent, lastOp, storeVars, redis, readers, pixelCache, wsHook>>

\* map.on('moveend', debouncedMoveEnd): the pending handleMoveEnd is cleared
\* and a new one is set
MapMoveEnd(bounds) ==
  /\ ~TimerDue
  /\ mapClient.events < MaxMapEvents
  /\ mapClient' = [mapClient EXCEPT !.bounds = bounds, !.events = @ + 1,
                                    !.moveTimeout = now + MOVE_DEBOUNCE]
  /\ UNCHANGED <<now, clientFrame>>

\* map.on('zoomend', handleZoomEnd): handleMoveEnd runs at once
MapZoomEnd(bounds, zoom) ==
  /\ ~TimerDue
  /\ mapClient.events < MaxMapEvents
  /\ mapClient' = handleMapChange([mapClient EXCEPT !.bounds = bounds, !.zoom = zoom,
                                                    !.events = @ + 1],
                                  bounds, zoom, now)
  /\ UNCHANGED <<now, clientFrame>>

\* the debounced handleMoveEnd fires: onMapChange(map.getBounds(), map.getZoom())
FireMoveEnd ==
  /\ mapClient.moveTimeout = now
  /\ mapClient' = handleMapChange([mapClient EXCEPT !.moveTimeout = NoTimeout],
                                  mapClient.bounds, mapClient.zoom, now)
  /\ UNCHANGED <<now, clientFrame>>

\* a timer of handleMapChange fires: subscribeToVisibleChunks(bounds, zoom)
\* on a connected socket
FireSubscribe(timer) ==
  /\ timer \in mapClient.timers /\ timer.at = now
  /\ LET last == mapClient.subscriptionBounds
         redundant == /\ ~last.none
                      /\ Abs(timer.bounds.north - last.north) < SUBSCRIBE_TOLERANCE
                      /\ Abs(timer.bounds.south - last.south) < SUBSCRIBE_TOLERANCE
                      /\ Abs(timer.bounds.east - last.east) < SUBSCRIBE_TOLERANCE
                      /\ Abs(timer.bounds.west - last.west) < SUBSCRIBE_TOLERANCE
     IN  mapClient' =
           IF redundant
             THEN [mapClient EXCEPT !.timers = @ \ {timer}]
             ELSE [mapClient EXCEPT !.timers = @ \ {timer},
                        !.subscriptionBounds = [north |-> timer.bounds.north,
                                                south |-> timer.bounds.south,
                                                east |-> timer.bounds.east,
                                                west |-> timer.bounds.west, none |-> FALSE],
                        !.burstEmits = @ + 1]
  /\ UNCHANGED <<now, clientFrame>>

\* time passes in the browser, never past a timer that is due
MapTick ==
  /\ ~TimerDue
  /\ now < MaxMapTicks * MOVE_DEBOUNCE
  /\ now' = now + MOVE_DEBOUNCE
  /\ UNCHANGED <<mapClient, clientFrame>>

NextMap ==
  \/ \E b \in {ViewWest, ViewEast} : MapMoveEnd(b)
  \/ \E b \in {ViewWest, ViewEast}, z \in {MIN_VISIBLE, MIN_VISIBLE + 1} : MapZoomEnd(b, z)
  \/ FireMoveEnd
  \/ \E timer \in mapClient.timers : FireSubscribe(timer)
  \/ MapTick

(***************************************************************************)
(* lib/database.ts: PixelCache, the in-memory cache of pixel lists         *)
(***************************************************************************)
PIXEL_CACHE_TTL == 30000

NoEntry == [null |-> TRUE]

\* A get that never looks at the age of the entry.
pixelCacheGetNoExpiry(cache, key, t) ==
  IF key \notin DOMAIN cache
    THEN [cache |-> cache, hit |-> FALSE, pixels |-> <<>>]
    ELSE [cache |-> cache, hit |-> TRUE, pixels |-> cache[key].pixels]

\* set(key, pixels): a copy of the list, stamped with Date.now()
pixelCacheSet(cache, key, pixels, t) ==
  MapSet(cache, key, [pixels |-> pixels, timestamp |-> t])

\* get(key): null (hit FALSE) when there is no entry or it has expired
pixelCacheGet(cache, key, t) ==
  IF key \notin DOMAIN cache
    THEN [cache |-> cache, hit |-> FALSE, pixels |-> <<>>]
    ELSE IF t - cache[key].timestamp > PIXEL_CACHE_TTL
      THEN [cache |-> MapDelete(cache, key), hit |-> FALSE, pixels |-> <<>>]
      ELSE [cache |-> cache, hit |-> TRUE, pixels |-> cache[key].pixels]

CacheKeys == {"0,0,1", "1,0,1"}
CacheLists == {<<>>, <<[gridX |-> 0, gridY |-> 0, color |-> "#FF0000"]>>}
\* the instants at which the cache is used: each end of a TTL and 1 ms after
CacheInstants == {k * PIXEL_CACHE_TTL + j : k \in 0..MaxCacheRounds, j \in {0, 1}}

cacheFrame == <<sockState, inbox, connectedUsers, chunkSubscriptions, userSockets,
                totalConnectedUsers, totalPixelsPlaced, roomUsers, chunkUsers, rooms,
                authSent, storeVars, redis, readers, mapClient, wsHook>>

CacheSet(key, pixels) ==
  /\ pixelCache' = pixelCacheSet(pixelCache, key, pixels, now)
  /\ lastOp' = NoOp
  /\ UNCHANGED <<now, cacheFrame>>

CacheGet(key) ==
  /\ pixelCache' = pixelCacheGet(pixelCache, key, now).cache
  /\ lastOp' = [op |-> "cacheGet", key |-> key, at |-> now,
                before |-> IF key \in DOMAIN pixelCache THEN pixelCache[key] ELSE NoEntry,
                hit |-> pixelCacheGet(pixelCache, key, now).hit,
                pixels |-> pixelCacheGet(pixelCache, key, now).pixels]
  /\ UNCHANGED <<now, cacheFrame>>

CacheClear ==
  /\ pixelCache' = EmptyMap
  /\ lastOp' = NoOp
  /\ UNCHANGED <<now, cacheFrame>>

CacheTick(t) ==
  /\ t > now
  /\ now' = t
  /\ lastOp' = NoOp
  /\ UNCHANGED <<pixelCache, cacheFrame>>

NextCache ==
  \/ \E key \in CacheKeys, pixels \in CacheLists : CacheSet(key, pixels)
  \/ \E key \in CacheKeys : CacheGet(key)
  \/ CacheClear
  \/ \E t \in CacheInstants : CacheTick(t)

(***************************************************************************)
(* hooks/useWebSocket.ts: the client hook of a signed-in user.  A function *)
(* made by useCallback sees the state of the render that made it: closure  *)
(* is the reconnectAttempts that the handlers of a socket, and the connect *)
(* their timer calls, were made with.  Timers fire at any time once set.   *)
(***************************************************************************)
MAX_RECONNECT_ATTEMPTS == 10

MountedHook ==
  [ws |-> "none", closure |-> 0, reconnectTimeout |-> FALSE, timerClosure |-> 0,
   heartbeat |-> FALSE, isConnected |-> FALSE, isReconnecting |-> FALSE,
   reconnectAttempts |-> 0, connectionError |-> "",
   detached |-> "none", detachedClosure |-> 0,
   disconnected |-> FALSE, sinceOpen |-> 0]

\* clearTimers
clearTimers(h) == [h EXCEPT !.reconnectTimeout = FALSE, !.heartbeat = FALSE]

\* connect, as made by the render whose reconnectAttempts was k
connect(h, k) ==
  IF h.ws \in {"connecting", "open"}
    THEN h
    ELSE [h EXCEPT !.ws = "connecting", !.closure = k]

\* ws.onclose of a socket whose connect was made with reconnectAttempts = k
onClose(h, code, k) ==
  LET closed == [clearTimers(h) EXCEPT !.isConnected = FALSE]
  IN  IF code # 1000 /\ k < MAX_RECONNECT_ATTEMPTS
        THEN [closed EXCEPT !.isReconnecting = TRUE, !.reconnectAttempts = @ + 1,
                            !.reconnectTimeout = TRUE, !.timerClosure = k]
      ELSE IF k >= MAX_RECONNECT_ATTEMPTS
        THEN [closed EXCEPT !.connectionError = "Impossible de se reconnecter au serveur",
                            !.isReconnecting = FALSE]
      ELSE closed

hookFrame == <<now, sockState, inbox, connectedUsers, chunkSubscriptions, userSockets,
               totalConnectedUsers, totalPixelsPlaced, roomUsers, chunkUsers, rooms,
               authSent, storeVars, redis, readers, mapClient, pixelCache>>

\* connect() called by the effect or by the component, from the last render
HookConnect ==
  /\ wsHook' = [connect(wsHook, wsHook.reconnectAttempts) EXCEPT !.disconnected = FALSE]
  /\ lastOp' = NoOp
  /\ UNCHANGED hookFrame

\* ws.onopen
WsOpen ==
  /\ wsHook.ws = "connecting"
  /\ wsHook' = [clearTimers(wsHook) EXCEPT !.ws = "open", !.isConnected = TRUE,
                   !.connectionError = "", !.reconnectAttempts = 0,
                   !.isReconnecting = FALSE, !.heartbeat = TRUE, !.sinceOpen = 0]
  /\ lastOp' = NoOp
  /\ UNCHANGED hookFrame

\* the connection fails or is lost: the close event carries code 1006
WsDropped ==
  /\ wsHook.ws \in {"connecting", "open"}
  /\ wsHook' = onClose([wsHook EXCEPT !.ws = "closed"], 1006, wsHook.closure)
  /\ lastOp' = NoOp
  /\ UNCHANGED hookFrame

\* the reconnect timer fires and calls the connect it was set with
ReconnectTimeout ==
  /\ wsHook.reconnectTimeout
  /\ wsHook.sinceOpen < MaxHookAttempts
  /\ LET fired == [wsHook EXCEPT !.reconnectTimeout = FALSE]
         after == connect(fired, wsHook.timerClosure)
     IN  wsHook' = IF after.ws # fired.ws
                     THEN [after EXCEPT !.sinceOpen = @ + 1]
                     ELSE after
  /\ lastOp' = [op |-> "reconnect"]
  /\ UNCHANGED hookFrame

\* disconnect(): close(1000) on the socket of wsRef, whose close event comes
\* later; a socket closed before it opened ends with code 1006
HookDisconnect ==
  /\ wsHook.detached = "none"
  /\ wsHook' = [clearTimers(wsHook) EXCEPT
                   !.detached = IF wsHook.ws \in {"connecting", "open"} THEN wsHook.ws
                                ELSE "none",
                   !.detachedClosure = wsHook.closure,
                   !.ws = "none", !.isConnected = FALSE, !.isReconnecting = FALSE,
                   !.reconnectAttempts = 0, !.connectionError = "",
                   !.disconnected = TRUE, !.sinceOpen = 0]
  /\ lastOp' = NoOp
  /\ UNCHANGED hookFrame

\* ws.onclose of the socket that disconnect() closed
DetachedClosed ==
  /\ wsHook.detached # "none"
  /\ wsHook' = onClose([wsHook EXCEPT !.detached = "none"],
                       IF wsHook.detached = "open" THEN 1000 ELSE 1006,
                       wsHook.detachedClosure)
  /\ lastOp' = NoOp
  /\ UNCHANGED hookFrame

\* the heartbeat interval fires: a ping is sent if the socket of wsRef is open
Heartbeat ==
  /\ wsHook.heartbeat
  /\ lastOp' = IF wsHook.ws = "open" THEN [op |-> "ping"] ELSE NoOp
  /\ UNCHANGED <<wsHook, hookFrame>>

NextHook ==
  \/ HookConnect
  \/ WsOpen
  \/ WsDropped
  \/ ReconnectTimeout
  \/ HookDisconnect
  \/ DetachedClosed
  \/ Heartbeat

(***************************************************************************)
(* PixelService reads of viewports that span two chunks, with pixels in    *)
(* both                                                                    *)
(***************************************************************************)
\* One point in chunk column 0 and two in chunk column 1
ChunkPoints == {[lat |-> 2, lng |-> -3], [lat |-> 2, lng |-> 0], [lat |-> 2, lng |-> 3]}

NextChunks ==
  \/ \E g \in ChunkPoints, color \in FREE, u \in UserIds :
       /\ Cardinality(pixelsTable) < MaxPixels
       /\ SvcPlacePixel(g.lat, g.lng, color, u)
       /\ UNCHANGED <<now, readers, notSvc>>
  \/ \E b \in {ViewWest, ViewEast}, z \in ReadZooms :
       SvcGetPixelsInBounds(b, z) /\ UNCHANGED <<now, pixelsTable, usersTable, readers, notSvc>>

(***************************************************************************)
(* lib/pixelGridSystem.ts and lib/gridSystem.ts: the grid functions, each  *)
(* applied to inputs inside, on and outside the world's edges              *)
(***************************************************************************)
MAX_PIXELS_PER_REQUEST == 4
GS_MAX_PIXELS_PER_REQUEST == 4

\* Math.sqrt of a perfect square (4096 and 10000 in the two configurations)
Sqrt(n) == CHOOSE k \in 0..n : k * k = n

\* A snap that returns the north-west corner of the cell instead of its centre.
snapToCorner(lat, lng) ==
  LET grid == geoToGrid(lat, lng)
  IN  [lat |-> MAX_LAT - grid.gridY * PIXEL_SIZE, lng |-> MIN_LNG + grid.gridX * PIXEL_SIZE,
       gridX |-> grid.gridX, gridY |-> grid.gridY]

snapToGrid(lat, lng) ==
  LET grid == geoToGrid(lat, lng)
      geo == gridToGeo(grid.gridX, grid.gridY)
  IN  [lat |-> geo.lat, lng |-> geo.lng, gridX |-> grid.gridX, gridY |-> grid.gridY]

\* A listing without the Math.min cap on the two sides.
getVisiblePixelsUncapped(bounds, zoom) ==
  LET topLeft == geoToGrid(bounds.north, bounds.west)
      bottomRight == geoToGrid(bounds.south, bounds.east)
  IN  IF zoom < MIN_VISIBLE
        THEN {}
        ELSE {p \in [gridX : topLeft.gridX .. bottomRight.gridX,
                     gridY : topLeft.gridY .. bottomRight.gridY] :
                isValidGridPosition(p.gridX, p.gridY)}

\* The list the two loops build; no position is pushed twice.
getVisiblePixels(bounds, zoom) ==
  IF zoom < MIN_VISIBLE
    THEN {}
    ELSE LET topLeft == geoToGrid(bounds.north, bounds.west)
             bottomRight == geoToGrid(bounds.south, bounds.east)
             maxPixelsPerSide == Sqrt(MAX_PIXELS_PER_REQUEST)
             pixelCountX == Min(bottomRight.gridX - topLeft.gridX + 1, maxPixelsPerSide)
             pixelCountY == Min(bottomRight.gridY - topLeft.gridY + 1, maxPixelsPerSide)
         IN  {p \in [gridX : topLeft.gridX .. (topLeft.gridX + pixelCountX - 1),
                     gridY : topLeft.gridY .. (topLeft.gridY + pixelCountY - 1)] :
                isValidGridPosition(p.gridX, p.gridY)}

gsGridToGeo(gridX, gridY) ==
  [lng |-> GS_MIN_LNG + (gridX * GS_PIXEL_SIZE) + (GS_PIXEL_SIZE \div 2),
   lat |-> GS_MAX_LAT - (gridY * GS_PIXEL_SIZE) - (GS_PIXEL_SIZE \div 2)]

gsSnapToGrid(lat, lng) ==
  LET grid == gsGeoToGrid(lat, lng)
      snappedGeo == gsGridToGeo(grid.x, grid.y)
  IN  [lat |-> snappedGeo.lat, lng |-> snappedGeo.lng, gridX |-> grid.x, gridY |-> grid.y]

gsVisiblePixels(mapBounds, zoom) ==
  IF zoom < GS_MIN_ZOOM_VISIBLE
    THEN {}
    ELSE LET topLeft == gsGeoToGrid(mapBounds.north, mapBounds.west)
             bottomRight == gsGeoToGrid(mapBounds.south, mapBounds.east)
             maxPixelsPerSide == Sqrt(GS_MAX_PIXELS_PER_REQUEST)
             pixelCountX == Min(bottomRight.x - topLeft.x + 1, maxPixelsPerSide)
             pixelCountY == Min(bottomRight.y - topLeft.y + 1, maxPixelsPerSide)
         IN  [x : topLeft.x .. (topLeft.x + pixelCountX - 1),
              y : topLeft.y .. (topLeft.y + pixelCountY - 1)]

\* everything but the record of the call just made
notOp == <<now, sockState, inbox, connectedUsers, chunkSubscriptions, userSockets,
           totalConnectedUsers, totalPixelsPlaced, roomUsers, chunkUsers, rooms,
           authSent, notSub>>

\* gridToGeo of a cell, in both libraries
GridToGeo(gridX, gridY) ==
  /\ lastOp = NoOp
  /\ lastOp' = [op |-> "gridToGeo", gridX |-> gridX, gridY |-> gridY,
                geo |-> gridToGeo(gridX, gridY), gsGeo |-> gsGridToGeo(gridX, gridY)]
  /\ UNCHANGED notOp

\* snapToGrid of a point, in both libraries
SnapToGrid(lat, lng) ==
  /\ lastOp = NoOp
  /\ lastOp' = [op |-> "snapToGrid", lat |-> lat, lng |-> lng,
                snapped |-> snapToGrid(lat, lng), gsSnapped |-> gsSnapToGrid(lat, lng)]
  /\ UNCHANGED notOp

\* getVisiblePixels of a viewport, in both libraries
GetVisiblePixels(bounds, zoom) ==
  /\ lastOp = NoOp
  /\ lastOp' = [op |-> "getVisiblePixels", bounds |-> bounds, zoom |-> zoom,
                pixels |-> getVisiblePixels(bounds, zoom),
                gsPixels |-> gsVisiblePixels(bounds, zoom)]
  /\ UNCHANGED notOp

\* getVisibleChunks of a viewport: the library the servers import, the second
\* library, and the local copy of the draft server
GetVisibleChunks(bounds, zoom) ==
  /\ lastOp = NoOp
  /\ lastOp' = [op |-> "getVisibleChunks", bounds |-> bounds, zoom |-> zoom,
                chunks |-> getVisibleChunks(bounds),
                gsChunks |-> gsVisibleChunks(bounds, zoom),
                roomChunks |-> roomVisibleChunks(bounds, zoom)]
  /\ UNCHANGED notOp

\* POST /api/pixels up to the entitlement check, for an authenticated user
ValidatePlacement(gridX, gridY, color, userId, isPremium) ==
  /\ lastOp = NoOp
  /\ lastOp' = [op |-> "validate", gridX |-> gridX, gridY |-> gridY, color |-> color,
                userId |-> userId, isPremium |-> isPremium,
                result |-> postChecks(gridX, gridY, color, userId, isPremium)]
  /\ UNCHANGED notOp

\* the call returns; the next one can be made
GridReturn ==
  /\ lastOp.op \in {"gridToGeo", "snapToGrid", "getVisiblePixels", "getVisibleChunks", "validate"}
  /\ lastOp' = NoOp
  /\ UNCHANGED notOp

\* Cells of the grid and one ring around it
GridXs == (0 - MaxOutside) .. ((MAX_LNG - MIN_LNG) \div PIXEL_SIZE - 1 + MaxOutside)
GridYs == (0 - MaxOutside) .. ((MAX_LAT - MIN_LAT) \div PIXEL_SIZE - 1 + MaxOutside)
\* Points at every half pixel of the world and beyond its edges
Lats == (MIN_LAT - MaxOutside) .. (MAX_LAT + MaxOutside)
Lngs == (MIN_LNG - MaxOutside) .. (MAX_LNG + MaxOutside)
\* Viewports with their corners on cell edges, on the world's edges and outside
ViewLats == {MIN_LAT - MaxOutside, MIN_LAT, -1, 1, MAX_LAT, MAX_LAT + MaxOutside}
ViewLngs == {MIN_LNG - MaxOutside, MIN_LNG, -2, 0, 2, MAX_LNG, MAX_LNG + MaxOutside}
PixelZooms == {GS_MIN_ZOOM_VISIBLE - 1, GS_MIN_ZOOM_VISIBLE, MIN_VISIBLE}
BodyColors == FREE \cup PREMIUM \cup {"#ABCDEF"}

NextGrid ==
  \/ \E gridX \in GridXs, gridY \in GridYs : GridToGeo(gridX, gridY)
  \/ \E lat \in Lats, lng \in Lngs : SnapToGrid(lat, lng)
  \/ \E north \in ViewLats, south \in ViewLats, west \in ViewLngs, east \in ViewLngs,
        zoom \in PixelZooms :
       GetVisiblePixels([north |-> north, south |-> south, west |-> west, east |-> east], zoom)
  \/ \E north \in ViewLats, south \in ViewLats, west \in ViewLngs, east \in ViewLngs,
        zoom \in PixelZooms :
       GetVisibleChunks([north |-> north, south |-> south, west |-> west, east |-> east], zoom)
  \/ \E gridX \in GridXs, gridY \in GridYs, color \in BodyColors, userId \in UserIds,
        isPremium \in BOOLEAN :
       ValidatePlacement(gridX, gridY, color, userId, isPremium)
  \/ GridReturn

InitE2E ==
  /\ now = 0
  /\ sockState = [s \in 1..(NSockets + 1) |-> "new"]
  /\ inbox = [s \in 1..(NSockets + 1) |-> <<>>]
  /\ connectedUsers = [s \in 1..(NSockets + 1) |-> NoUser]
  /\ chunkSubscriptions = EmptyMap
  /\ userSockets = EmptyMap
  /\ totalConnectedUsers = 0
  /\ totalPixelsPlaced = 0
  /\ roomUsers = [s \in 1..(NSockets + 1) |-> NoUser]
  /\ chunkUsers = EmptyMap
  /\ rooms = EmptyMap
  /\ authSent = 0
  /\ lastOp = NoOp
  /\ pixelsTable = {}
  /\ usersTable = [u \in UserIds |->
                     [pixels_placed |-> 0, last_pixel_time |-> NullTime, is_premium |-> FALSE]]
  /\ req = [r \in 1..NRequests |-> IdleRequest]
  /\ applied = {}
  /\ lastCommit = EmptyMap
  /\ redis = EmptyMap
  /\ readers = [r \in 1..NReaders |-> IdleReader]
  /\ mapClient = MountedClient
  /\ pixelCache = EmptyMap
  /\ wsHook = MountedHook

Init ==
  /\ now = 0
  /\ sockState = [s \in 1..NSockets |-> "new"]
  /\ inbox = [s \in 1..NSockets |-> <<>>]
  /\ connectedUsers = [s \in 1..NSockets |-> NoUser]
  /\ chunkSubscriptions = EmptyMap
  /\ userSockets = EmptyMap
  /\ totalConnectedUsers = 0
  /\ totalPixelsPlaced = 0
  /\ roomUsers = [s \in 1..NSockets |-> NoUser]
  /\ chunkUsers = EmptyMap
  /\ rooms = EmptyMap
  /\ authSent = 0
  /\ lastOp = NoOp
  /\ pixelsTable = {}
  /\ usersTable = [u \in UserIds |->
                     [pixels_placed |-> 0, last_pixel_time |-> NullTime, is_premium |-> FALSE]]
  /\ req = [r \in 1..NRequests |-> IdleRequest]
  /\ applied = {}
  /\ lastCommit = EmptyMap
  /\ redis = EmptyMap
  /\ readers = [r \in 1..NReaders |-> IdleReader]
  /\ mapClient = MountedClient
  /\ pixelCache = EmptyMap
  /\ wsHook = MountedHook

\* server/websocketServer.ts alone
SpecSub == Init /\ [][NextWS]_vars

\* server/websocket.ts alone
SpecRoom == Init /\ [][NextRoom]_vars

\* app/api/pixels/route.ts alone
SpecRoute == Init /\ [][NextRoute]_vars

\* the map component, the route and server/websocketServer.ts together
SpecE2E == InitE2E /\ [][NextE2E]_vars

\* lib/pixelService.ts alone
SpecSvc == Init /\ [][NextSvc]_vars

\* PixelService.getPixelsInBounds calls interleaved with placements
SpecRead == Init /\ [][NextRead]_vars

SpecGrid == Init /\ [][NextGrid]_vars

SpecFan == InitE2E /\ [][NextFan]_vars

SpecChunks == Init /\ [][NextChunks]_vars

SpecMap == Init /\ [][NextMap]_vars
SpecCache == Init /\ [][NextCache]_vars

\* POST and PUT of app/api/pixels/route.ts
SpecPut == Init /\ [][NextPut]_vars

\* hooks/useWebSocket.ts alone
SpecHook == Init /\ [][NextHook]_vars

(***************************************************************************)
(* Claims about the subscription servers                                   *)
(***************************************************************************)
Subscribed(t, chunkId) == chunkId \in connectedUsers[t].currentChunks

\* C1: when an authenticated socket's placement in chunk C is relayed, every
\* other connected socket whose subscription set contains C receives exactly
\* one pixel:placed event, and every other connected socket receives none.
C1_SubscribersNotifiedOnce ==
  [][\A s \in Sockets, p \in ProbePixels :
       (PixelPlace(s, p) /\ connectedUsers[s].isAuthenticated) =>
         \A t \in Sockets \ {s} :
           sockState[t] = "open" =>
             Len(inbox'[t]) - Len(inbox[t]) =
               (IF Subscribed(t, getChunkId(p.gridX \div CHUNK_SIZE,
                                            p.gridY \div CHUNK_SIZE))
                  THEN 1 ELSE 0)]_vars

COOLDOWN_MS == COOLDOWN_SECONDS * 1000

\* r2's cooldown check ran before r1's writes reached the tables, and conversely
Concurrent(r1, r2) ==
  /\ r1 # r2
  /\ req[r1].pc # "idle" /\ req[r2].pc # "idle"
  /\ r1 \notin req[r2].saw /\ r2 \notin req[r1].saw

SameCell(r1, r2) == req[r1].gridX = req[r2].gridX /\ req[r1].gridY = req[r2].gridY

\* C3: once a user's placement was accepted (submitted at time t, answered
\* 200), a later valid placement of the same user submitted before
\* t + COOLDOWN_MS is answered 429 with a remaining wait above zero and
\* writes nothing.
C3_RejectedWithinCooldown ==
  \A r1, r2 \in Requests :
    (/\ r1 # r2 /\ req[r1].user = req[r2].user
     /\ req[r1].result.status = 200 /\ r1 \in req[r2].saw
     /\ req[r2].pc # "idle" /\ req[r2].result.status \notin {400, 401, 403}
     /\ req[r2].checkedAt < req[r1].checkedAt + COOLDOWN_MS)
    => /\ req[r2].result.status = 429
       /\ req[r2].result.remainingSeconds > 0
       /\ ~HasWrites(r2) /\ r2 \notin applied

\* C4: of two requests of one user whose cooldown checks both ran before the
\* other's commit, at most one is accepted and committed.
C4_OneOfTwoConcurrentAccepted ==
  \A r1, r2 \in Requests :
    (Concurrent(r1, r2) /\ req[r1].user = req[r2].user)
    => ~(req[r1].result.status = 200 /\ req[r2].result.status = 200)

\* C5: a request whose write transaction failed (answer 500 from a store
\* call before the commit returned) has none of its writes in the tables.
C5_FailedWriteLeavesNoTrace ==
  \A r \in Requests :
    (req[r].result.status = 500 /\ req[r].result.cause # "read") => r \notin applied

\* C6: the pixels table holds at most one row per cell, and the row's colour
\* and owner are those of the write committed last for that cell.
C6_OnePixelPerCell ==
  /\ \A row \in pixelsTable :
       /\ RowsAt(pixelsTable, row.gridX, row.gridY) = {row}
       /\ <<row.gridX, row.gridY>> \in DOMAIN lastCommit
       /\ row.color = lastCommit[<<row.gridX, row.gridY>>].color
       /\ row.userId = lastCommit[<<row.gridX, row.gridY>>].userId
  /\ \A c \in DOMAIN lastCommit : RowsAt(pixelsTable, c[1], c[2]) # {}

C6_TwoUsersCommittedSameCell ==
  \E r1, r2 \in Requests :
    /\ Concurrent(r1, r2) /\ SameCell(r1, r2)
    /\ req[r1].user # req[r2].user /\ req[r1].color # req[r2].color
    /\ r1 \in applied /\ r2 \in applied
    /\ req[r1].write = "insert" /\ req[r2].write = "update"
    /\ req[r2].result.status = 200

\* C7: two concurrent requests of different users at one cell never end in
\* a storage-conflict failure (duplicate key) for either caller.
C7_NoStorageConflictSurfaces ==
  \A r1, r2 \in Requests :
    (Concurrent(r1, r2) /\ SameCell(r1, r2) /\ req[r1].user # req[r2].user)
    => ~(req[r2].result.status = 500 /\ req[r2].result.cause = "ER_DUP_ENTRY")

(***************************************************************************)
(* Claims about the events that follow a placement                         *)
(***************************************************************************)
\* e announces the pixel value that request r wrote
IsEventOf(e, r) ==
  /\ e.type = "pixel:placed"
  /\ e.pixel.gridX = req[r].gridX /\ e.pixel.gridY = req[r].gridY
  /\ e.pixel.color = req[r].color /\ e.pixel.owner = req[r].user

\* C8: every pixel:placed event in a subscriber's inbox carries the cell,
\* colour and owner of a pixel write that was committed to the pixels table.
C8_EventsCarryCommittedPixels ==
  \A t \in Sockets : \A i \in 1..Len(inbox[t]) :
    inbox[t][i].type = "pixel:placed" =>
      \E r \in applied : req[r].write # "none" /\ IsEventOf(inbox[t][i], r)

\* C9: when placement r1 was committed before placement r2 of the same cell
\* was even submitted, no socket receives the event of r1 after the event
\* of r2.
C9_NoStaleEventAfterNewer ==
  \A t \in Sockets, r1, r2 \in Requests :
    (/\ r1 # r2 /\ SameCell(r1, r2) /\ req[r1].color # req[r2].color
     /\ r1 \in req[r2].saw /\ r2 \in applied)
    => ~\E i, j \in 1..Len(inbox[t]) :
          i < j /\ IsEventOf(inbox[t][i], r2) /\ IsEventOf(inbox[t][j], r1)

(***************************************************************************)
(* Claims about the chunk cache                                            *)
(***************************************************************************)
\* C10: when PixelService.placePixel has committed a pixel and returned, no
\* chunk cache entry of the pixel's chunk is left in Redis, at any zoom
\* level a region read can cache it under.
C10_NoChunkEntrySurvivesCommit ==
  lastOp.op = "placePixel" =>
    \A zoom \in SvcZooms :
      ~Live(redis, chunkCacheKey(lastOp.pixel.gridX \div GS_CHUNK_SIZE,
                                 lastOp.pixel.gridY \div GS_CHUNK_SIZE, zoom), now)

(***************************************************************************)
(* Claims about region reads racing with placements                        *)
(***************************************************************************)
\* the call queried the table itself
Fetched(r) == readers[r].pc \in {"fetched", "done"} /\ ~readers[r].hit

\* C11: a region read that starts when no other read is under way (every
\* racing read has returned, every placement has finished its invalidation)
\* and is served from the cache returns the pixels the table holds.
C11_NoStaleEntryAfterRace ==
  \A r \in Readers :
    (readers[r].pc = "done" /\ readers[r].hit /\ readers[r].inFlight = {})
    => readers[r].pixels = readers[r].fresh

\* C12: two region reads of the same chunks and zoom that miss the cache in
\* the same episode (the second misses while the first is still under way)
\* do not both query the table.
C12_OneFetchPerMissEpisode ==
  \A r1, r2 \in Readers :
    (/\ r1 \in readers[r2].inFlight
     /\ readers[r1].bounds = readers[r2].bounds /\ readers[r1].zoom = readers[r2].zoom)
    => ~(Fetched(r1) /\ Fetched(r2))

(***************************************************************************)
(* Claims about disconnection and zoom                                     *)
(***************************************************************************)
\* C13: a socket that has disconnected is in no chunk's subscriber set and
\* has no entry in connectedUsers, and no chunk is left in chunkSubscriptions
\* with an empty subscriber set.
C13_DisconnectedClientForgotten ==
  \A s \in Sockets :
    sockState[s] = "closed" =>
      /\ connectedUsers[s] = NoUser
      /\ \A c \in DOMAIN chunkSubscriptions :
           /\ s \notin chunkSubscriptions[c].subscribers
           /\ chunkSubscriptions[c].subscribers # {}

\* C19: after a subscribe:chunks message whose zoom is below MIN_VISIBLE the
\* socket has an empty currentChunks and is in no chunk's subscriber set,
\* whatever the bounds and whatever it was subscribed to before.
C19_LowZoomSubscribesNothing ==
  (lastOp.op = "subscribe" /\ lastOp.zoom < MIN_VISIBLE) =>
    /\ connectedUsers[lastOp.socket].currentChunks = {}
    /\ \A c \in DOMAIN chunkSubscriptions :
         lastOp.socket \notin chunkSubscriptions[c].subscribers

(***************************************************************************)
(* Claims about the grid functions and the placement checks                *)
(***************************************************************************)
GridWidth == (MAX_LNG - MIN_LNG) \div PIXEL_SIZE
GridHeight == (MAX_LAT - MIN_LAT) \div PIXEL_SIZE
InGrid(gridX, gridY) == gridX \in 0..(GridWidth - 1) /\ gridY \in 0..(GridHeight - 1)

C16_RoundTrip ==
  (lastOp.op = "gridToGeo" /\ InGrid(lastOp.gridX, lastOp.gridY)) =>
    /\ geoToGrid(lastOp.geo.lat, lastOp.geo.lng)
         = [gridX |-> lastOp.gridX, gridY |-> lastOp.gridY]
    /\ gsGeoToGrid(lastOp.gsGeo.lat, lastOp.gsGeo.lng)
         = [x |-> lastOp.gridX, y |-> lastOp.gridY]

C16_LastCellConverted ==
  /\ lastOp.op = "gridToGeo"
  /\ lastOp.gridX = GridWidth - 1 /\ lastOp.gridY = GridHeight - 1

\* C17: snapToGrid returns the centre gridToGeo gives for the cell geoToGrid
\* gives, and snapping the snapped point returns the same result, for points
\* inside, on and outside the world's edges, in both grid libraries.
C17_SnapIsCentreAndIdempotent ==
  lastOp.op = "snapToGrid" =>
    LET s == lastOp.snapped
        g == lastOp.gsSnapped
        cell == geoToGrid(lastOp.lat, lastOp.lng)
        gsCell == gsGeoToGrid(lastOp.lat, lastOp.lng)
    IN  /\ [lat |-> s.lat, lng |-> s.lng] = gridToGeo(cell.gridX, cell.gridY)
        /\ [lat |-> g.lat, lng |-> g.lng] = gsGridToGeo(gsCell.x, gsCell.y)
        /\ snapToGrid(s.lat, s.lng) = s
        /\ gsSnapToGrid(g.lat, g.lng) = g

C17_SnappedOnWorldCorner ==
  /\ lastOp.op = "snapToGrid"
  /\ lastOp.lat = MIN_LAT /\ lastOp.lng = MAX_LNG
  /\ lastOp.snapped.lng > MAX_LNG

\* C18: getVisiblePixels returns at most MAX_PIXELS_PER_REQUEST cells, all
\* of them inside the rectangle between geoToGrid(north, west) and
\* geoToGrid(south, east), in both grid libraries.
C18_VisiblePixelsCappedAndInside ==
  lastOp.op = "getVisiblePixels" =>
    LET b == lastOp.bounds
        topLeft == geoToGrid(b.north, b.west)
        bottomRight == geoToGrid(b.south, b.east)
    IN  /\ Cardinality(lastOp.pixels) <= MAX_PIXELS_PER_REQUEST
        /\ \A p \in lastOp.pixels :
             /\ p.gridX \in topLeft.gridX .. bottomRight.gridX
             /\ p.gridY \in topLeft.gridY .. bottomRight.gridY
        /\ Cardinality(lastOp.gsPixels) <= GS_MAX_PIXELS_PER_REQUEST
        /\ \A p \in lastOp.gsPixels :
             /\ p.x \in topLeft.gridX .. bottomRight.gridX
             /\ p.y \in topLeft.gridY .. bottomRight.gridY

C18_WholeWorldCapped ==
  /\ lastOp.op = "getVisiblePixels"
  /\ lastOp.bounds = [north |-> MAX_LAT, south |-> MIN_LAT, west |-> MIN_LNG, east |-> MAX_LNG]
  /\ Cardinality(lastOp.pixels) = MAX_PIXELS_PER_REQUEST
  /\ Cardinality(lastOp.gsPixels) = GS_MAX_PIXELS_PER_REQUEST

(***************************************************************************)
(* Claims about what POST /api/pixels stores and answers                   *)
(***************************************************************************)
\* C15: every row of the pixels table has the grid coordinates geoToGrid
\* gives for its lat and lng; a body whose grid coordinates disagree with its
\* point is never stored.
C15_StoredCellMatchesPoint ==
  \A row \in pixelsTable :
    geoToGrid(row.lat, row.lng) = [gridX |-> row.gridX, gridY |-> row.gridY]

\* C20: every cooldown rejection carries the remaining wait, which is
\* positive and, in milliseconds, equal to COOLDOWN_MS minus the time since
\* the user's last placement.
C20_RejectionCarriesRemainingMs ==
  \A r \in Requests :
    req[r].result.status = 429 =>
      LET remainingMs == COOLDOWN_MS - (req[r].checkedAt - req[r].lastPixelTime.ms)
      IN  /\ remainingMs > 0
          /\ req[r].result.remainingSeconds * 1000 = remainingMs

(***************************************************************************)
(* Claims about the relay of a placement to a chunk's subscribers          *)
(***************************************************************************)
ChunkIdOfPixel(pixel) == getChunkId(pixel.gridX \div CHUNK_SIZE, pixel.gridY \div CHUNK_SIZE)

SubscribersOf(chunkId) ==
  IF chunkId \in DOMAIN chunkSubscriptions THEN chunkSubscriptions[chunkId].subscribers ELSE {}

\* C21: when a placement is relayed to a chunk whose subscriber set holds
\* sockets that can no longer be reached, every other subscriber that is
\* still connected receives the pixel:placed event and the placer receives
\* its pixel:confirmed.
C21_FailedDeliveryIsolated ==
  lastOp.op = "place" =>
    LET s == lastOp.socket
        subscribers == SubscribersOf(ChunkIdOfPixel(lastOp.pixel)) \ {s}
    IN  /\ \A t \in subscribers :
             sockState[t] = "open" =>
               inbox[t] = Append(lastOp.before[t],
                                 [type |-> "pixel:placed", pixel |-> lastOp.pixel])
        /\ inbox[s] = Append(lastOp.before[s],
                             [type |-> "pixel:confirmed", pixel |-> lastOp.pixel])

C21_RelayedPastClosedSubscriber ==
  /\ lastOp.op = "place"
  /\ \E t, u \in SubscribersOf(ChunkIdOfPixel(lastOp.pixel)) \ {lastOp.socket} :
       /\ t < u
       /\ sockState[t] = "closed" /\ sockState[u] = "open"
       /\ Len(inbox[u]) = Len(lastOp.before[u]) + 1

(***************************************************************************)
(* Claims about the order of the steps of a placement                      *)
(***************************************************************************)
\* the user's cooldown was running when the request was checked
CooldownActive(r) ==
  /\ ~req[r].lastPixelTime.null
  /\ req[r].checkedAt - req[r].lastPixelTime.ms < COOLDOWN_MS

\* the body of the request fails validation: cell outside the grid or colour
\* outside the palette
InvalidBody(r) ==
  \/ ~isValidGridPosition(req[r].gridX, req[r].gridY)
  \/ ~isValidColor(req[r].color)

C23_ConfirmedAfterCommitAndBroadcast ==
  \A r \in Requests :
    req[r].result.status = 200 =>
      /\ r \in applied
      /\ req[r].pc = "announced"

(***************************************************************************)
(* Claims about the viewport diff                                          *)
(***************************************************************************)
\* the reverse index: chunk id -> the sockets subscribed to it
SubscriberIndex == [c \in DOMAIN chunkSubscriptions |-> chunkSubscriptions[c].subscribers]

\* C24: while a subscribe:chunks message is handled, a chunk that is in both
\* the socket's old and new chunk sets keeps the socket in its subscriber
\* set at every step: after the first loop of subscribeToChunks the chunk
\* still has its entry and the socket is still in it.
C24_SharedChunksUntouched ==
  [][\A s \in Sockets, b \in Viewports, z \in Zooms :
       SubscribeChunks(s, b, z) =>
         LET old == connectedUsers[s].currentChunks
             afterFirstLoop == UnsubscribeOld(chunkSubscriptions, s, old)
         IN  \A c \in old \cap ChunkIdsOf(b) :
               (c \in DOMAIN chunkSubscriptions /\ s \in chunkSubscriptions[c].subscribers)
               => (c \in DOMAIN afterFirstLoop /\ s \in afterFirstLoop[c].subscribers)]_vars

\* C25: a subscribe:chunks message whose viewport gives the chunk set the
\* socket already has leaves the socket's chunk set and the whole reverse
\* index as they were.
C25_SameViewportIsNoOp ==
  [][\A s \in Sockets, b \in Viewports, z \in Zooms :
       (SubscribeChunks(s, b, z) /\ ChunkIdsOf(b) = connectedUsers[s].currentChunks) =>
         /\ connectedUsers'[s].currentChunks = connectedUsers[s].currentChunks
         /\ SubscriberIndex' = SubscriberIndex]_vars

(***************************************************************************)
(* Claims about region reads over several chunks                           *)
(***************************************************************************)
\* the rows of a chunk that lie inside the bounds
RowsOfChunk(table, c, bounds) ==
  {row \in RowsInBounds(table, bounds) :
     getChunkCoords(row.gridX, row.gridY) = c}

\* C26: a region read returns, for each chunk of the viewport, the chunk's
\* live cache entry or, when the chunk has none, the stored pixels of that
\* chunk: no stored pixel of an uncached chunk is missing because another
\* chunk of the viewport was cached.
C26_UncachedChunksFetched ==
  [][\A b \in {ViewWest, ViewEast}, z \in ReadZooms :
       SvcGetPixelsInBounds(b, z) =>
         \A c \in gsVisibleChunks(b, z) :
           LET key == chunkCacheKey(c.chunkX, c.chunkY, z)
           IN  IF Live(redis, key, now)
                 THEN redis[key].value \subseteq lastOp'.pixels
                 ELSE RowsOfChunk(pixelsTable, c, b) \subseteq lastOp'.pixels]_vars

(***************************************************************************)
(* Claims about the map's viewport events                                  *)
(***************************************************************************)
\* C27: a burst of viewport changes, each reported less than the
\* subscription delay after the one before, leads to at most one
\* subscription: a newer change cancels the pending one.
C27_OneSubscriptionPerBurst == mapClient.burstEmits <= 1

(***************************************************************************)
(* Claims about the cooldown check                                         *)
(***************************************************************************)
\* the request passed authentication and the checks of its body, so that
\* checkCooldown decided its fate
ReachedCooldown(r) ==
  /\ req[r].pc # "idle" /\ req[r].user # 0
  /\ postChecks(req[r].gridX, req[r].gridY, req[r].color, req[r].user,
                req[r].result.status # 403).status = 0
  /\ req[r].result.status # 403

\* max(0, COOLDOWN_MS - (now - lastPlacementTime)), 0 for a user who never placed
RemainingMs(r) ==
  IF req[r].lastPixelTime.null THEN 0
  ELSE Max(0, COOLDOWN_MS - (req[r].checkedAt - req[r].lastPixelTime.ms))

\* C28: a request that reaches the cooldown check is refused for cooldown
\* exactly when max(0, COOLDOWN_MS - (now - lastPlacementTime)) is above zero;
\* a user who never placed and a user whose last placement is exactly
\* COOLDOWN_MS old are let through, and the wait reported is never negative.
C28_AllowedIffNothingRemains ==
  \A r \in Requests :
    ReachedCooldown(r) =>
      /\ (req[r].result.status = 429) <=> (RemainingMs(r) > 0)
      /\ req[r].result.status = 429 => req[r].result.remainingSeconds >= 0

C28_AllowedExactlyAtCooldownEnd ==
  \E r \in Requests :
    /\ ReachedCooldown(r)
    /\ ~req[r].lastPixelTime.null
    /\ req[r].checkedAt - req[r].lastPixelTime.ms = COOLDOWN_MS
    /\ req[r].result.status = 200

(***************************************************************************)
(* Claims about the server statistics                                      *)
(***************************************************************************)
\* the figures 'server:stats' and 'stats:update' carry in the current state
serverStats ==
  [connectedUsers |-> totalConnectedUsers,
   chunksActive |-> Cardinality(DOMAIN chunkSubscriptions)]

OpenSockets == {s \in Sockets : sockState[s] = "open"}

\* the chunks that at least one open connection is subscribed to
LiveChunks ==
  {c \in DOMAIN chunkSubscriptions :
     \E s \in OpenSockets : connectedUsers[s] # NoUser
                            /\ c \in connectedUsers[s].currentChunks}

\* C29: in every state the reported number of connected clients is the number
\* of open connections, and the reported number of active chunks is the number
\* of chunks with at least one subscribed, still-connected client.
C29_StatsExact ==
  /\ serverStats.connectedUsers = Cardinality(OpenSockets)
  /\ serverStats.chunksActive = Cardinality(LiveChunks)

(***************************************************************************)
(* Claims about the chunks of a viewport                                   *)
(***************************************************************************)
\* the cells of the world whose centre lies inside the viewport
CellsInside(bounds) ==
  {c \in (0..(GridWidth - 1)) \X (0..(GridHeight - 1)) :
     LET geo == gridToGeo(c[1], c[2])
     IN  /\ bounds.south <= geo.lat /\ geo.lat <= bounds.north
         /\ bounds.west <= geo.lng /\ geo.lng <= bounds.east}

\* the chunks that hold at least one cell of the world
WorldChunks ==
  {gridToChunk(c[1], c[2]) : c \in (0..(GridWidth - 1)) \X (0..(GridHeight - 1))}

ChunksComplete(bounds, chunks) ==
  \A c \in CellsInside(bounds) : gridToChunk(c[1], c[2]) \in chunks

\* C30: the chunks computed for a viewport hold the chunk of every cell lying
\* inside the viewport, and every one of them is a chunk of the world grid.
C30_ChunksCompleteAndInWorld ==
  lastOp.op = "getVisibleChunks" =>
    /\ ChunksComplete(lastOp.bounds, lastOp.chunks)
    /\ lastOp.chunks \subseteq WorldChunks

(***************************************************************************)
(* Claims about the in-memory pixel cache                                  *)
(***************************************************************************)
\* C31: get(key) returns the stored pixels exactly when an entry exists and
\* is not older than the TTL; an entry older than the TTL gives a miss and is
\* removed, so a get more than a TTL after the set is always a miss.
C31_NoEntryPastTtl ==
  lastOp.op = "cacheGet" =>
    LET fresh == /\ lastOp.before # NoEntry
                 /\ lastOp.at - lastOp.before.timestamp <= PIXEL_CACHE_TTL
    IN  /\ lastOp.hit <=> fresh
        /\ lastOp.hit => lastOp.pixels = lastOp.before.pixels
        /\ (lastOp.before # NoEntry /\ ~fresh) => lastOp.key \notin DOMAIN pixelCache

C31_ExpiredEntryMissed ==
  /\ lastOp.op = "cacheGet"
  /\ lastOp.before # NoEntry
  /\ lastOp.at - lastOp.before.timestamp = PIXEL_CACHE_TTL + 1
  /\ ~lastOp.hit
  /\ lastOp.key \notin DOMAIN pixelCache

(***************************************************************************)
(* Claims about the two indexes of the subscription server                 *)
(***************************************************************************)
\* the socket is a connected client whose currentChunks holds the chunk
HoldsChunk(s, chunkId) ==
  /\ sockState[s] = "open"
  /\ connectedUsers[s] # NoUser
  /\ chunkId \in connectedUsers[s].currentChunks

AllChunkIds ==
  DOMAIN chunkSubscriptions \cup
    UNION {connectedUsers[s].currentChunks : s \in {x \in Sockets : connectedUsers[x] # NoUser}}

\* C32: in every state a socket is in the subscriber set of a chunk exactly
\* when it is a connected client whose currentChunks holds that chunk.
C32_IndexesAgree ==
  \A s \in Sockets, c \in AllChunkIds : (s \in SubscribersOf(c)) <=> HoldsChunk(s, c)

(***************************************************************************)
(* Claims about the rooms of the draft server                              *)
(***************************************************************************)
\* the viewer's chunk set is the non-empty one of a viewport, reported at
\* some zoom, that contains the point
ViewerSees(v, lat, lng) ==
  /\ sockState[v] = "open"
  /\ roomUsers[v] # NoUser
  /\ \E b \in Viewports, z \in Zooms :
       /\ ChunkKeysOf(b, z) # {}
       /\ roomUsers[v].currentChunks = ChunkKeysOf(b, z)
       /\ b.south <= lat /\ lat <= b.north /\ b.west <= lng /\ lng <= b.east

\* C33: when the draft server accepts a placement, every other connected
\* client whose last viewport contains the cell, at whatever zoom it was
\* reported, is sent pixel_updated.
C33_ViewersReceiveUpdate ==
  [][\A s \in Sockets, g \in ProbePoints :
       (RoomPlacePixel(s, g.lat, g.lng, "#FF0000") /\ roomUsers[s] # NoUser) =>
         \A v \in Sockets \ {s} :
           ViewerSees(v, g.lat, g.lng) => Len(inbox'[v]) > Len(inbox[v])]_vars

\* all the rows the table holds in a chunk
StoredInChunk(table, c) == {row \in table : getChunkCoords(row.gridX, row.gridY) = c}

\* C34: every chunk entry a region read writes to the cache holds all the
\* pixels the store has in that chunk at the time of the read, not only
\* those inside the viewport of the read.
C34_CachedChunksComplete ==
  [][\A b \in {ViewWest, ViewEast}, z \in ReadZooms :
       SvcGetPixelsInBounds(b, z) =>
         \A c \in gsVisibleChunks(b, z) :
           LET key == chunkCacheKey(c.chunkX, c.chunkY, z)
               written == /\ key \in DOMAIN redis'
                          /\ (key \in DOMAIN redis => redis'[key] # redis[key])
           IN  written => redis'[key].value = StoredInChunk(pixelsTable, c)]_vars

(***************************************************************************)
(* Claims about connections that are not signed in                         *)
(***************************************************************************)
\* C35: a pixel:place message from a socket that is not authenticated is
\* answered with an authentication error and changes nothing: no table, no
\* inbox (no pixel event is sent to anyone) and no counter.
C35_AnonymousPlacementChangesNothing ==
  [][\A s \in Sockets, p \in ProbePixels :
       (FanPixelPlace(s, p) /\ ~connectedUsers[s].isAuthenticated) =>
         /\ lastOp'.op = "error" /\ lastOp'.socket = s
         /\ UNCHANGED notOp]_vars

C35_AnonymousPlacementRefused ==
  /\ lastOp.op = "error"
  /\ sockState[lastOp.socket] = "open"
  /\ ~connectedUsers[lastOp.socket].isAuthenticated
  /\ \E c \in DOMAIN chunkSubscriptions :
       chunkSubscriptions[c].subscribers \ {lastOp.socket} # {}

(***************************************************************************)
(* Claims about the modification of a pixel                                *)
(***************************************************************************)
\* C36: a PUT that changes the colour of the caller's pixel is accepted only
\* when the caller's cooldown has run out, counted from the last change the
\* users table records, and it records its own time there.
C36_PutUnderCooldown ==
  (lastOp.op = "put" /\ lastOp.status = 200) =>
    /\ lastOp.lastPixelTime.null
         \/ lastOp.at - lastOp.lastPixelTime.ms >= COOLDOWN_MS
    /\ usersTable[lastOp.user].last_pixel_time = SqlNow(lastOp.at)

(***************************************************************************)
(* Claims about the client hook                                            *)
(***************************************************************************)
\* C37: between two successful opens the hook starts at most
\* MAX_RECONNECT_ATTEMPTS reconnections; when that many have failed it sets
\* no further timer and reports the connection error.
C37_ReconnectionsBounded ==
  /\ wsHook.sinceOpen <= MAX_RECONNECT_ATTEMPTS
  /\ (wsHook.sinceOpen = MAX_RECONNECT_ATTEMPTS /\ wsHook.ws = "closed") =>
       /\ ~wsHook.reconnectTimeout
       /\ wsHook.connectionError = "Impossible de se reconnecter au serveur"

\* C38: from disconnect() until connect() is called again there is no socket,
\* no reconnect timer and no heartbeat, and the state reads isConnected false,
\* isReconnecting false, reconnectAttempts 0.
C38_DisconnectIsFinal ==
  wsHook.disconnected =>
    /\ wsHook.ws = "none"
    /\ ~wsHook.reconnectTimeout
    /\ ~wsHook.heartbeat
    /\ ~wsHook.isConnected
    /\ ~wsHook.isReconnecting
    /\ wsHook.reconnectAttempts = 0
    /\ lastOp.op \notin {"reconnect", "ping"}

====
